---- MODULE Spec2Model ----
(***************************************************************************)
(* A model of the netventory discovery engine (scanner.Scanner) and of the *)
(* web server's scan lifecycle (web.Server).                               *)
(*                                                                         *)
(* Spec     : one Scanner instance, from NewScanner on: ScanNetwork, the   *)
(*            producer goroutine, the workers, the completion goroutine,   *)
(*            Stop, and a consumer of the results and done channels.       *)
(* FairSpec : Spec with weak fairness on every goroutine step and on the   *)
(*            consumer's receive of the done signal.                       *)
(* WebSpec  : web.Server StartScan / StopScan / DumpScan with the scan and *)
(*            progress goroutines, over a summary of each Scanner.         *)
(* FuncSpec : one call of GetAllIPs, of IsReachable (with its probe        *)
(*            goroutines) or of GetMACFromIP, on inputs drawn in its Init. *)
(* ReuseSpec: one Scanner that receives two ScanNetwork calls, whose scans *)
(*            may overlap; of the maps only keys and writers are followed. *)
(* ParseSpec: one call of NormalizeMACAddress, of cleanHostname, of the    *)
(*            NBNS response parser or of the RDP negotiation parser.       *)
(* HostSpec : the workers of one scan with the hostname resolution and the *)
(*            mDNS goroutine of each IP, and a GetWorkerStats reader.      *)
(* ReachSpec: one call of IsReachable with all fifteen probe goroutines,   *)
(*            followed by count; FairReachSpec adds weak fairness.         *)
(* FairWebSpec: WebSpec with weak fairness on the server's goroutines.     *)
(***************************************************************************)
EXTENDS Integers, Sequences, FiniteSets, TLC

\* ------------------------------------------------------------------ bounds
\* Largest number of host bits of the scanned block (prefix >= 32 - HostBits).
HostBits == 1
\* Largest worker count passed to ScanNetwork.
MaxWorkers == 2
\* Capacity of resultsChan in the model (100 in NewScanner), scaled down so
\* that a full stream is reached with the hosts of one small block.
ResultsCap == 1
\* Upper limit on the addresses GetAllIPs' loop may collect in the model; it
\* lies above the size of every block the model scans.
EnumLimit == 20
\* Largest number of host bits of a block handed to GetAllIPs on its own.
EnumBits == 3
\* Number of IsReachable's probe ports the model follows (15 in the source).
MaxProbes == 3
\* Number of Scanner instances the web server may create (StartScan calls).
MaxScans == 2

\* --------------------------------------------------------------- addresses
BaseIP == <<192, 168, 1, 0>>

RECURSIVE Pow2(_)
Pow2(n) == IF n = 0 THEN 1 ELSE 2 * Pow2(n - 1)

\* number of one-bits of a /bits mask that fall into byte j (1..4)
MaskOnes(bits, j) ==
    LET k == bits - 8 * (j - 1) IN IF k < 0 THEN 0 ELSE IF k > 8 THEN 8 ELSE k

\* b & maskbyte, for a mask byte with k leading one-bits
AndMask(b, k) == b - (b % Pow2(8 - k))

\* net.IP.Mask
Mask(ip, bits) ==
    <<AndMask(ip[1], MaskOnes(bits, 1)), AndMask(ip[2], MaskOnes(bits, 2)),
      AndMask(ip[3], MaskOnes(bits, 3)), AndMask(ip[4], MaskOnes(bits, 4))>>

\* net.ParseCIDR: a CIDR input is [IP, Bits]; Bits outside 0..32 does not parse
ParseCIDR(cidr) ==
    IF cidr.Bits \in 0..32 /\ \A j \in 1..4 : cidr.IP[j] \in 0..255
    THEN [ok |-> TRUE, IP |-> Mask(cidr.IP, cidr.Bits), Bits |-> cidr.Bits]
    ELSE [ok |-> FALSE, IP |-> <<0, 0, 0, 0>>, Bits |-> 0]

\* net.IPNet.Contains
Contains(ipNet, ip) == \A j \in 1..4 : AndMask(ip[j], MaskOnes(ipNet.Bits, j)) = ipNet.IP[j]

\* inc: add one to the last byte, carrying into earlier bytes while a byte wraps to 0
RECURSIVE incFrom(_, _)
incFrom(ip, j) ==
    IF j = 0 THEN ip
    ELSE LET b == (ip[j] + 1) % 256
             ip2 == [ip EXCEPT ![j] = b]
         IN IF b > 0 THEN ip2 ELSE incFrom(ip2, j - 1)

inc(ip) == incFrom(ip, 4)

RECURSIVE GetAllIPsLoop(_, _, _)
GetAllIPsLoop(ipNet, ip, acc) ==
    IF Contains(ipNet, ip) /\ Len(acc) < EnumLimit
    THEN GetAllIPsLoop(ipNet, inc(ip), Append(acc, ip))
    ELSE acc

GetAllIPs(ipNet) ==
    LET all == GetAllIPsLoop(ipNet, Mask(ipNet.IP, ipNet.Bits), <<>>)
    IN IF Len(all) > 2 THEN SubSeq(all, 2, Len(all) - 1) ELSE all

\* every address lies in the block: the condition of GetAllIPs' loop is true of
\* each address inc can produce, so the loop does not end
NeverLeaves(ipNet) ==
    \A j \in 1..4 : \A b \in 0..255 : AndMask(b, MaskOnes(ipNet.Bits, j)) = ipNet.IP[j]

\* a call of GetAllIPs: whether it returns, and what
GetAllIPsCall(ipNet) ==
    IF NeverLeaves(ipNet)
    THEN [returned |-> FALSE, ips |-> <<>>]
    ELSE [returned |-> TRUE, ips |-> GetAllIPs(ipNet)]

\* the blocks handed to GetAllIPs on its own: three base addresses (the last one
\* gives the blocks that end at 255.255.255.255), the prefix lengths with at most
\* EnumBits host bits, and prefix length 0
EnumBases == {BaseIP, <<10, 0, 255, 253>>, <<255, 255, 255, 255>>}
EnumInputs == {[IP |-> a, Bits |-> b] : a \in EnumBases, b \in {0} \cup ((32 - EnumBits)..32)}

\* the CIDR strings handed to ScanNetwork: the blocks of BaseIP with at most
\* HostBits host bits, and one string that does not parse (Bits = 33)
CIDRInputs == {[IP |-> BaseIP, Bits |-> b] : b \in (32 - HostBits)..33}

\* ------------------------------------------------------------------ probes
\* sort.Ints (insertion sort)
RECURSIVE InsertSorted(_, _)
InsertSorted(s, x) ==
    IF s = <<>> THEN <<x>>
    ELSE IF x <= Head(s) THEN <<x>> \o s
    ELSE <<Head(s)>> \o InsertSorted(Tail(s), x)

RECURSIVE SortInts(_)
SortInts(s) == IF s = <<>> THEN <<>> ELSE InsertSorted(SortInts(Tail(s)), Head(s))

\* IsReachable: mac is GetMACFromIP's answer, arrived the ports whose probe
\* succeeded, in the order the probe goroutines reported them
IsReachable(mac, arrived) ==
    [reachable |-> (mac # "") \/ (Len(arrived) > 0), openPorts |-> SortInts(arrived)]

\* commonPorts followed by macPorts, in the order the probe goroutines are started
AllProbePorts == <<80, 443, 22, 445, 139, 135, 8080, 3389, 5900, 8006, 548, 5353, 5000, 7000, 3689>>
\* capacity of IsReachable's results channel: len(commonPorts)
ProbeChanCap == 10
\* the probe ports the model follows
ProbePorts == {AllProbePorts[i] : i \in 1..MaxProbes}

\* --------------------------------------------------------------------- MACs
HexDigits == {"0", "1", "2", "3", "4", "5", "6", "7", "8", "9"}
LowerHex == <<"a", "b", "c", "d", "e", "f">>
UpperHex == <<"A", "B", "C", "D", "E", "F">>

\* strings.ToUpper on one character
ToUpperChar(c) ==
    IF \E i \in 1..6 : LowerHex[i] = c
    THEN UpperHex[CHOOSE i \in 1..6 : LowerHex[i] = c]
    ELSE c

\* strings.ToUpper
ToUpper(str) == [i \in 1..Len(str) |-> ToUpperChar(str[i])]

\* strings.ReplaceAll(str, sep, "") for a one-character sep
RemoveAll(str, sep) == SelectSeq(str, LAMBDA c : c # sep)

\* the loop of NormalizeMACAddress: a colon before every character at an even
\* index other than 0
RECURSIVE InsertColons(_, _)
InsertColons(str, i) ==
    IF i >= Len(str) THEN <<>>
    ELSE (IF i > 0 /\ i % 2 = 0 THEN <<":">> ELSE <<>>) \o <<str[i + 1]>> \o InsertColons(str, i + 1)

\* mutant of NormalizeMACAddress: the colons of the input are kept
NormalizeMACAddressKeepsColons(mac) ==
    InsertColons(RemoveAll(RemoveAll(ToUpper(mac), "-"), "."), 0)

\* NormalizeMACAddress
NormalizeMACAddress(mac) ==
    InsertColons(RemoveAll(RemoveAll(RemoveAll(ToUpper(mac), ":"), "-"), "."), 0)

\* the token the ARP-output regex extracts: six groups joined by a separator
RECURSIVE JoinGroups(_, _)
JoinGroups(groups, sep) ==
    IF Len(groups) = 1 THEN groups[1]
    ELSE groups[1] \o <<sep>> \o JoinGroups(Tail(groups), sep)

\* the groups of hex digits the model builds ARP tokens from
MacGroups == {<<"0">>, <<"a">>, <<"1", "b">>, <<"F", "F">>}
\* what the regex can find in the ARP output: no token (the empty string) or a token
MacTokens == {<<>>} \cup {JoinGroups(g, sep) : g \in [1..6 -> MacGroups], sep \in {":", "-"}}

\* GetMACFromIP after the ARP query: the normalised token, or "" when none was found
GetMACFromIP(token) == IF token # <<>> THEN NormalizeMACAddress(token) ELSE <<>>

\* what one host may answer to a probe
ProbeAnswers == {[mac |-> m, arrived |-> a] : m \in {"", "AA:BB:CC:DD:EE:FF"}, a \in {<<>>, <<80>>}}


\* ---------------------------------------------------------------- hostnames
\* a name is a sequence of byte values
AsciiLetters == (65..90) \cup (97..122)
AsciiDigits == 48..57

\* strings.Index(str, b) for a one-byte b, counted from 1; 0 when b is absent
IndexByte(str, b) ==
    IF \E i \in 1..Len(str) : str[i] = b
    THEN CHOOSE i \in 1..Len(str) : str[i] = b /\ \A j \in 1..(i - 1) : str[j] # b
    ELSE 0

\* str[:idx] at the first b, str itself when b is absent
Before(str, b) ==
    IF IndexByte(str, b) = 0 THEN str ELSE SubSeq(str, 1, IndexByte(str, b) - 1)

\* strings.TrimRight(str, cutset)
RECURSIVE TrimRight(_, _)
TrimRight(str, cutset) ==
    IF str # <<>> /\ str[Len(str)] \in cutset
    THEN TrimRight(SubSeq(str, 1, Len(str) - 1), cutset)
    ELSE str

\* mutant of cleanHostname: the name is cut at ':' only, and the filter lets '.' through
cleanHostnameKeepsDots(name) ==
    SelectSeq(Before(name, 58), LAMBDA r : r \in AsciiLetters \cup AsciiDigits \cup {45, 46})

\* cleanHostname: cut at the first ':' (58), keep what precedes the first '.' (46),
\* drop every character other than a letter, a digit or '-' (45)
cleanHostname(name) ==
    SelectSeq(Before(Before(name, 58), 46),
              LAMBDA r : r \in AsciiLetters \cup AsciiDigits \cup {45})

\* isValidHostname: 2 to 63 bytes, a letter first, a letter or digit last, and none
\* of \ / : * ? " < > | @
isValidHostname(s) ==
    /\ Len(s) >= 2 /\ Len(s) <= 63
    /\ s[1] \in AsciiLetters
    /\ s[Len(s)] \in AsciiLetters \cup AsciiDigits
    /\ ~\E i \in 1..Len(s) : s[i] \in {92, 47, 58, 42, 63, 34, 60, 62, 124, 64}

\* ------------------------------------------------------------ NBNS responses
\* response[k] after conn.Read stored resp in the zeroed buffer
ByteAt(resp, k) == IF k < Len(resp) THEN resp[k + 1] ELSE 0

\* record i of the name table: 15 name bytes trimmed of spaces and NULs, the type
\* byte, the big-endian flags word
NameRecord(resp, i) ==
    LET offset == 57 + (i * 18) IN
    [name |-> TrimRight([k \in 1..15 |-> ByteAt(resp, offset + k - 1)], {32, 0}),
     nameType |-> ByteAt(resp, offset + 15),
     flags |-> (ByteAt(resp, offset + 16) * 256) + ByteAt(resp, offset + 17)]

\* the last index the loops have read once they have looked at records 0..i
ReadThrough(i) == 57 + (i * 18) + 17

\* mutant of MachineName: the flags need only have bit 0x0400
MachineNameAnyActive(r) ==
    r.nameType \in {0, 32} /\ (r.flags \div 1024) % 2 = 1

\* (nameType == 0x00 || nameType == 0x20) && (flags == 0x0400)
MachineName(r) ==
    r.nameType \in {0, 32} /\ r.flags = 1024

\* the first loop of getNetBIOSName from record i on: the cleaned name of the
\* first record of type 0x00 or 0x20 with flags 0x0400, when it is not empty
RECURSIVE FirstPass(_, _, _)
FirstPass(resp, i, numNames) ==
    IF i >= numNames THEN [name |-> <<>>, read |-> ReadThrough(numNames - 1)]
    ELSE LET r == NameRecord(resp, i) IN
         IF MachineName(r) /\ cleanHostname(r.name) # <<>>
         THEN [name |-> cleanHostname(r.name), read |-> ReadThrough(i)]
         ELSE FirstPass(resp, i + 1, numNames)

\* the second loop: records with flags&0x8000 != 0 are skipped
RECURSIVE SecondPass(_, _, _)
SecondPass(resp, i, numNames) ==
    IF i >= numNames THEN <<>>
    ELSE LET r == NameRecord(resp, i) IN
         IF /\ (r.flags \div 32768) % 2 = 0
            /\ r.nameType \in {0, 32}
            /\ cleanHostname(r.name) # <<>>
         THEN cleanHostname(r.name)
         ELSE SecondPass(resp, i + 1, numNames)

\* getNetBIOSName from "Parse response" on, for n = Len(resp): the name, the
\* error, and the highest index of response it has read (-1: none)
ParseNetBIOS(resp) ==
    LET n == Len(resp) IN
    IF n < 57 THEN [name |-> <<>>, err |-> "response too short", read |-> -1]
    ELSE LET numNames == ByteAt(resp, 56) IN
         IF n < 57 + (numNames * 18)
         THEN [name |-> <<>>, err |-> "incomplete response", read |-> 56]
         ELSE LET first == FirstPass(resp, 0, numNames) IN
              IF first.name # <<>>
              THEN [name |-> first.name, err |-> "", read |-> first.read]
              ELSE LET second == SecondPass(resp, 0, numNames) IN
                   [name |-> second,
                    err |-> IF second # <<>> THEN "" ELSE "no NetBIOS name found",
                    read |-> first.read]

\* ------------------------------------------------- hostname methods' results
\* strings.Index(str, sub), counted from 1; 0 when sub does not occur
IndexSub(str, sub) ==
    LET hits == {i \in 1..(Len(str) - Len(sub) + 1) : SubSeq(str, i, i + Len(sub) - 1) = sub}
    IN IF hits = {} THEN 0 ELSE CHOOSE i \in hits : \A j \in hits : i <= j

RECURSIVE TrimLeft(_, _)
TrimLeft(str, cutset) ==
    IF str # <<>> /\ str[1] \in cutset THEN TrimLeft(Tail(str), cutset) ELSE str

\* strings.TrimSpace, on ASCII
TrimSpace(str) == TrimLeft(TrimRight(str, {9, 10, 11, 12, 13, 32}), {9, 10, 11, 12, 13, 32})

\* getAFPHostname on the banner line it read ("" when the read failed): what stands
\* between the first '(' and the next one, trimmed of ')' CR LF, when the banner
\* contains "AFP"; "" stands for the error return
getAFPHostname(banner) ==
    IF IndexSub(banner, <<65, 70, 80>>) # 0 /\ IndexByte(banner, 40) # 0
    THEN TrimRight(Before(SubSeq(banner, IndexByte(banner, 40) + 1, Len(banner)), 40),
                   {41, 13, 10})
    ELSE <<>>

\* getSMBHostname on the share names listed: the server part of the first share
\* that starts with two backslashes, up to its first '.'; "" for "no hostname found"
RECURSIVE getSMBHostname(_)
getSMBHostname(shares) ==
    IF shares = <<>> THEN <<>>
    ELSE IF Len(Head(shares)) >= 2 /\ SubSeq(Head(shares), 1, 2) = <<92, 92>>
         THEN Before(TrimSpace(Before(SubSeq(Head(shares), 3, Len(Head(shares))), 92)), 46)
         ELSE getSMBHostname(Tail(shares))

\* extractHostnameFromCert on possibleNames: the first name without '*' that is
\* valid once cleaned; "" for "no valid hostname in certificate"
RECURSIVE extractHostnameFromCert(_)
extractHostnameFromCert(possibleNames) ==
    IF possibleNames = <<>> THEN <<>>
    ELSE IF /\ Head(possibleNames) # <<>>
            /\ IndexByte(Head(possibleNames), 42) = 0
            /\ cleanHostname(Head(possibleNames)) # <<>>
            /\ isValidHostname(cleanHostname(Head(possibleNames)))
         THEN cleanHostname(Head(possibleNames))
         ELSE extractHostnameFromCert(Tail(possibleNames))

\* getBonjourHostname on the entry whose address matched: its Host without the
\* final '.', else a name made from its service instance name; "" for no entry
getBonjourHostname(entry) ==
    LET host == IF entry.Host # <<>> /\ entry.Host[Len(entry.Host)] = 46
                THEN SubSeq(entry.Host, 1, Len(entry.Host) - 1) ELSE entry.Host
        at == IndexByte(entry.Name, 64)
        n1 == IF at > 1 THEN SubSeq(entry.Name, at + 1, Len(entry.Name)) ELSE entry.Name
        dot == IndexSub(n1, <<46, 95>>)
        n2 == IF dot > 1 THEN SubSeq(n1, 1, dot - 1) ELSE n1
        local == <<46, 108, 111, 99, 97, 108>>
    IN  IF host # <<>> THEN host
        ELSE IF entry.Name = <<>> THEN <<>>
        ELSE IF Len(n2) >= 6 /\ SubSeq(n2, Len(n2) - 5, Len(n2)) = local THEN n2
        ELSE n2 \o local

\* lines 228-259 of the worker: LookupVendor returns "Unknown Vendor" for every
\* address and nothing stores into s.mdnsNames, so neither test tags the device
VendorIsApple == FALSE
PreSweepName == <<>>

\* lines 264-299 of the worker, on the answers a of the network: the device, the
\* methods attempted in order, and the method that gave the hostname
ResolveHostname(dev, a) ==
    LET ports == dev.OpenPorts
        afp == IF 548 \in ports THEN getAFPHostname(a.afp) ELSE <<>>
        d1 == IF afp # <<>> THEN [dev EXCEPT !.Hostname = <<afp>>, !.DeviceType = "Apple"]
              ELSE dev
        try445 == Len(d1.Hostname) = 0 /\ 445 \in ports
        nb == IF try445 THEN ParseNetBIOS(a.nb).name ELSE <<>>
        smb == IF try445 /\ nb = <<>> THEN getSMBHostname(a.smb) ELSE <<>>
        d2 == IF nb # <<>> THEN [d1 EXCEPT !.Hostname = <<nb>>]
              ELSE IF smb # <<>> THEN [d1 EXCEPT !.Hostname = <<smb>>]
              ELSE d1
        try3389 == Len(d2.Hostname) = 0 /\ 3389 \in ports
        rdp == IF try3389 THEN extractHostnameFromCert(a.rdp) ELSE <<>>
        d3 == IF rdp # <<>> THEN [d2 EXCEPT !.Hostname = <<rdp>>] ELSE d2
    IN  IF Len(a.dns) > 0
        THEN [device |-> [dev EXCEPT !.Hostname = a.dns], tried |-> <<"dns">>, by |-> "dns"]
        ELSE [device |-> d3,
              tried |-> <<"dns">>
                        \o (IF 548 \in ports THEN <<"afp">> ELSE <<>>)
                        \o (IF try445 THEN <<"netbios">> ELSE <<>>)
                        \o (IF try445 /\ nb = <<>> THEN <<"smb">> ELSE <<>>)
                        \o (IF try3389 THEN <<"rdp">> ELSE <<>>),
              by |-> IF afp # <<>> THEN "afp" ELSE IF nb # <<>> THEN "netbios"
                     ELSE IF smb # <<>> THEN "smb" ELSE IF rdp # <<>> THEN "rdp" ELSE ""]

\* mutant of MdnsTrigger: mDNS is tried whenever no hostname was found
MdnsTriggerAlways(dev) == Len(dev.Hostname) = 0

\* the condition of line 302
MdnsTrigger(dev) ==
    /\ Len(dev.Hostname) = 0
    /\ \/ dev.DeviceType = "Apple" \/ dev.DeviceType = "Possible Apple"
       \/ 5353 \in dev.OpenPorts \/ 5000 \in dev.OpenPorts \/ 7000 \in dev.OpenPorts

\* mutant of PortCheck: the tag is written whatever the device type was
PortCheckOverwrites(dev) ==
    IF dev.OpenPorts \cap {548, 5353, 5000, 7000, 3689} # {}
    THEN [dev EXCEPT !.DeviceType = "Possible Apple"]
    ELSE dev

\* lines 334-343: "Possible Apple" for a device with an Apple port and no type yet
PortCheck(dev) ==
    IF dev.OpenPorts \cap {548, 5353, 5000, 7000, 3689} # {} /\ dev.DeviceType = ""
    THEN [dev EXCEPT !.DeviceType = "Possible Apple"]
    ELSE dev

\* ------------------------------------------------- RDP negotiation responses
\* mutant of Uint32LE: the four bytes read in big-endian order
Uint32BE(resp, k) ==
    (((((ByteAt(resp, k) * 256) + ByteAt(resp, k + 1)) * 256) + ByteAt(resp, k + 2)) * 256)
        + ByteAt(resp, k + 3)

\* binary.LittleEndian.Uint32(response[k:k+4])
Uint32LE(resp, k) ==
    (((((ByteAt(resp, k + 3) * 256) + ByteAt(resp, k + 2)) * 256) + ByteAt(resp, k + 1)) * 256)
        + ByteAt(resp, k)

\* Step 5 of getRDPHostname for n = Len(resp): the error it returns, or "tls" when
\* selectedProtocol&0x06 != 0 sends it on to the SSL handshake
ParseRDP(resp) ==
    IF Len(resp) < 19 THEN "response too short"
    ELSE IF ByteAt(resp, 0) # 3 \/ ByteAt(resp, 1) # 0 THEN "invalid TPKT header"
    ELSE IF ByteAt(resp, 5) # 208 THEN "invalid COTP header"
    ELSE IF (Uint32LE(resp, 15) \div 2) % 4 # 0 THEN "tls"
    ELSE "secure protocols not supported"

\* ------------------------------------------------------------------- state
VARIABLES
    \* --- scanner.Scanner
    scanState,      \* "idle" after NewScanner, "failed" / "running" after ScanNetwork returned err / nil
    panicked,       \* the process died of a runtime panic
    stopClosed,     \* s.stopChan is closed
    ips,            \* ScanNetwork's local ips
    totalIPs, scannedCount, sentCount,
    devices,        \* s.devices: IP -> Device
    workerStats,    \* s.workerStats: id -> WorkerStatus
    resultsChan,    \* s.resultsChan, buffered
    resultsClosed,  \* s.resultsChan is closed
    doneSignalled,  \* a value has passed through the unbuffered s.doneChan
    workChan, workClosed,   \* ScanNetwork's local workChan, and whether it is closed
    workers,        \* the worker count given to ScanNetwork
    wgCount,        \* ScanNetwork's local wg
    wpc, wip, wdev, \* per worker: position, the IP it holds, its local device
    ppc, pidx,      \* producer goroutine: position, index of the next IP
    cpc,            \* completion goroutine: position
    \* --- history of the scan (not program state)
    streamed,       \* every device sent on resultsChan, in send order
    upOrder,        \* the IPs stored as Up, in the order of their map writes
    dropped,        \* the IPs whose send found resultsChan full
    counted,        \* the IPs for which a worker incremented scannedCount
    stoppedEarly,   \* Stop was called while the producer was still enqueuing
    handed,         \* IP -> number of times a worker received it from workChan
    lateDequeued,   \* the IPs a worker received while stopChan was closed
    probed,         \* the IPs for which a worker called IsReachable
    writes,         \* IP -> number of writes of its entry in the device map
    \* --- web.Server
    scanActive,     \* s.scanActive
    srvScanner,     \* s.scanner: 0 is nil, otherwise the Scanner instance
    created,        \* number of Scanner instances made by StartScan
    srvDevices,     \* s.devices, as the set of instances whose devices it holds
    srvPanicked,    \* the server process died of a panic in one of its goroutines
    handlerPanicked, \* a request handler panicked (net/http recovers it and drops the request)
    startPc,        \* a StartScan call: "idle", or "create" once it has set scanActive
    startCidr,      \* whether the CIDR of the StartScan call in "create" parses
    dumpPc,         \* a DumpScan call: "idle", "clear", "reset"
    engRuns,        \* per instance: ScanNetwork runs whose workers have not all returned
    engDone,        \* per instance: completion goroutines blocked sending on doneChan
    engStop,        \* per instance: stopChan is closed
    engResults,     \* per instance: devices waiting in resultsChan
    gpc, gsc, gcidr, \* per StartScan goroutine: position, the instance whose channels it reads, whether its CIDR parses
    tpc,            \* per progress goroutine: position
    \* --- one call of a function on its own
    task,           \* which function the behaviour calls: "none", "enum", "probe", "mac"
    fpc,            \* "call" before the call, "run" inside IsReachable, "done" after the return
    enumCidr, enumOut,  \* GetAllIPs: the block, and the outcome of the call
    prMac,          \* IsReachable: GetMACFromIP's answer
    prSucc,         \* IsReachable: the ports whose probe succeeds
    prPending,      \* IsReachable: the probe goroutines that have not finished
    prResults, prClosed,  \* IsReachable: the results channel, and whether it is closed
    prArrived,      \* history: the ports in the order they were sent on results
    prOpen, prReach, \* IsReachable: openPorts and isReachable
    prRet,          \* IsReachable: the returned pair and the Device the worker builds from it
    macToken, macOut, \* GetMACFromIP: the token the regex found, and the returned string
    \* --- one Scanner that receives more than one ScanNetwork call
    rcpc,           \* per call: position inside ScanNetwork
    rn, rips, ri,   \* per call: the worker count, the local ips, the spawn loop's i
    rTotalIPs, rScannedCount, rSentCount,   \* s.totalIPs, s.scannedCount, s.sentCount
    rDevices,       \* s.devices: IP -> the call whose worker wrote the entry
    rWorkerStats,   \* s.workerStats: id -> the call that stored the entry
    rWorkChan, rWorkClosed, \* per call: the local workChan
    rpidx, rppc,    \* per call: the producer goroutine
    rwpc, rwip,     \* per call and worker: position, the IP it holds
    rwg,            \* per call: the local wg
    rccpc,          \* per call: the completion goroutine
    rOverlap,       \* history, per call: an earlier call's scan was still running when it began
    \* --- one call of a parser or of NormalizeMACAddress on its own
    parseTask,      \* which one the behaviour calls: "none", "norm", "nbns", "rdp"
    parsePc,        \* "call" before the call, "done" after the return, steps in between
    normIn, normOut, normAgain, \* NormalizeMACAddress: x, f(x), f(f(x))
    nbResp,         \* getNetBIOSName: the bytes conn.Read stored, response[:n]
    nbRet,          \* getNetBIOSName: the returned pair, and the highest index it read
    rdpResp,        \* getRDPHostname: the bytes conn.Read stored, response[:n]
    rdpDials,       \* getRDPHostname: connections opened so far
    rdpRet,         \* getRDPHostname: "" while running, then the branch it left by
    \* --- the workers of one scan, with the hostname resolution of each IP
    hQueue,         \* workChan, closed, with the IPs not yet received
    hpc, hip, hDev, \* per worker: position, the IP it holds, its local device
    hgpc, hgName,   \* per worker: its mDNS goroutine's position and bonjourHostname
    hQuery,         \* the IPs for which a query goroutine of getBonjourHostname is running
    hMutex,         \* s.deviceMutex: "free", or "worker" while a worker holds it
    hWorkerStats,   \* s.workerStats, as the set of its ids
    hDevices,       \* s.devices
    hResults,       \* the number of devices in s.resultsChan
    hScanned,       \* s.scannedCount
    hrpc,           \* a GetWorkerStats call: "idle", "locked", "devices"
    hTried, hBy,    \* history, per worker: the methods attempted for its IP, and the one that gave the hostname
    hClassified,    \* history, per worker: the port check ran for its IP
    hWrites,        \* history: IP -> number of writes of its entry in s.devices
    hCounted,       \* history: IP -> number of times a worker counted it
    \* --- one call of cleanHostname on its own (and one more on its result)
    clIn, clOut, clAgain,   \* x, cleanHostname(x), cleanHostname(cleanHostname(x))
    \* --- one call of IsReachable with all of its probe goroutines, by count
    irPc,           \* "call" before the call, "range" in the collector loop, "returned"
    irDialOk,       \* probe goroutines running whose dial succeeds: each sends its port once
    irDialFail,     \* probe goroutines running whose dial fails or times out
    irResults,      \* the number of ports in the results channel
    irClosed,       \* results is closed
    irOpenPorts,    \* len(openPorts)
    irWasFull       \* history: a probe goroutine has found results full

engineVars == <<scanState, panicked, stopClosed, ips, totalIPs, scannedCount, sentCount,
                devices, workerStats, resultsChan, resultsClosed, doneSignalled, workChan,
                workClosed, workers, wgCount, wpc, wip, wdev, ppc, pidx, cpc,
                streamed, upOrder, dropped, counted, stoppedEarly,
                handed, lateDequeued, probed, writes>>

webVars == <<scanActive, srvScanner, created, srvDevices, srvPanicked, handlerPanicked, startPc, startCidr,
             dumpPc, engRuns, engDone, engStop, engResults, gpc, gsc, gcidr, tpc>>

funcVars == <<task, fpc, enumCidr, enumOut, prMac, prSucc, prPending, prResults, prClosed,
              prArrived, prOpen, prReach, prRet, macToken, macOut>>

reuseVars == <<rcpc, rn, rips, ri, rTotalIPs, rScannedCount, rSentCount, rDevices, rWorkerStats,
               rWorkChan, rWorkClosed, rpidx, rppc, rwpc, rwip, rwg, rccpc, rOverlap>>

parseVars == <<parseTask, parsePc, normIn, normOut, normAgain, nbResp, nbRet, rdpResp,
               rdpDials, rdpRet>>

hostVars == <<hQueue, hpc, hip, hDev, hgpc, hgName, hQuery, hMutex, hWorkerStats, hDevices,
              hResults, hScanned, hrpc, hTried, hBy, hClassified, hWrites, hCounted>>

cleanVars == <<clIn, clOut, clAgain>>

reachVars == <<irPc, irDialOk, irDialFail, irResults, irClosed, irOpenPorts, irWasFull>>

detailVars == <<parseVars, hostVars, cleanVars, reachVars>>

vars == <<engineVars, webVars, funcVars, reuseVars, detailVars>>

WorkerIds == 0..(MaxWorkers - 1)
NoIP == <<>>
NoDevice == [IPAddress |-> NoIP, Status |-> "", OpenPorts |-> <<>>]

\* m[k] = v on a Go map
MapPut(m, k, v) == [x \in (DOMAIN m) \cup {k} |-> IF x = k THEN v ELSE m[x]]
\* delete(m, k)
MapDelete(m, k) == [x \in (DOMAIN m) \ {k} |-> m[x]]
EmptyMap == [x \in {} |-> 0]

\* NewScanner
EngineInit ==
    /\ scanState = "idle"
    /\ panicked = FALSE
    /\ stopClosed = FALSE
    /\ ips = <<>>
    /\ totalIPs = 0 /\ scannedCount = 0 /\ sentCount = 0
    /\ devices = EmptyMap
    /\ workerStats = EmptyMap
    /\ resultsChan = <<>> /\ resultsClosed = FALSE
    /\ doneSignalled = FALSE
    /\ workChan = <<>> /\ workClosed = FALSE
    /\ workers = 0
    /\ wgCount = 0
    /\ wpc = [w \in WorkerIds |-> "none"]
    /\ wip = [w \in WorkerIds |-> NoIP]
    /\ wdev = [w \in WorkerIds |-> NoDevice]
    /\ ppc = "none" /\ pidx = 1
    /\ cpc = "none"
    /\ streamed = <<>> /\ upOrder = <<>> /\ dropped = {} /\ counted = <<>>
    /\ stoppedEarly = FALSE
    /\ handed = EmptyMap /\ lateDequeued = {} /\ probed = {} /\ writes = EmptyMap


\* ------------------------------------------------------- Scanner operations
webUnchanged == UNCHANGED <<webVars, funcVars, reuseVars, detailVars>>
historyUnchanged == UNCHANGED <<streamed, upOrder, dropped, counted, stoppedEarly>>
auditUnchanged == UNCHANGED <<handed, lateDequeued, probed, writes>>
\* the tally kept for key k in a history map
CountOf(m, k) == IF k \in DOMAIN m THEN m[k] ELSE 0

\* the producer goroutine has not left its loop over ips
ProducerEnqueuing == ppc \in {"select", "inc"} /\ pidx <= Len(ips)

\* Stop: close(s.stopChan); closing a closed channel is a runtime panic
Stop ==
    /\ ~panicked
    /\ IF stopClosed
       THEN /\ panicked' = TRUE
            /\ UNCHANGED <<stopClosed, stoppedEarly>>
       ELSE /\ stopClosed' = TRUE
            /\ stoppedEarly' = (stoppedEarly \/ ProducerEnqueuing)
            /\ UNCHANGED panicked
    /\ UNCHANGED <<scanState, ips, totalIPs, scannedCount, sentCount, devices, workerStats,
                   resultsChan, resultsClosed, doneSignalled, workChan, workClosed, workers, wgCount,
                   wpc, wip, wdev, ppc, pidx, cpc, streamed, upOrder, dropped, counted>>
    /\ webUnchanged /\ auditUnchanged

\* the WorkerStatus ScanNetwork stores for a worker it spawns
NewWorkerStatus(total) ==
    [State |-> "starting", CurrentIP |-> "waiting", IPsFound |-> 0,
     IPsScanned |-> 0, TotalIPs |-> total, SentCount |-> 0]

\* ScanNetwork(cidr, n): called on a Scanner fresh from NewScanner
ScanNetwork(cidr, n) ==
    /\ ~panicked
    /\ scanState = "idle"
    /\ stopClosed' = FALSE
    /\ LET parsed == ParseCIDR(cidr) IN
       IF ~parsed.ok
       THEN /\ scanState' = "failed"
            /\ UNCHANGED <<ips, totalIPs, scannedCount, sentCount, devices, workerStats,
                           workChan, workClosed, workers, wgCount, wpc, ppc, pidx, cpc>>
       ELSE LET hosts == GetAllIPs(parsed) IN
            /\ scanState' = "running"
            /\ ips' = hosts
            /\ totalIPs' = Len(hosts)
            /\ scannedCount' = 0
            /\ sentCount' = 0
            /\ devices' = EmptyMap
            /\ workChan' = <<>> /\ workClosed' = FALSE
            /\ workers' = n
            /\ wgCount' = n
            /\ workerStats' = [w \in (DOMAIN workerStats) \cup (0..(n - 1)) |->
                                   IF w \in 0..(n - 1) THEN NewWorkerStatus(Len(hosts))
                                   ELSE workerStats[w]]
            /\ wpc' = [w \in WorkerIds |-> IF w < n THEN "range" ELSE "none"]
            /\ ppc' = "select" /\ pidx' = 1
            /\ cpc' = "wait"
    /\ UNCHANGED <<panicked, resultsChan, resultsClosed, doneSignalled, wip, wdev>>
    /\ historyUnchanged
    /\ webUnchanged /\ auditUnchanged

\* ---- producer goroutine (ScanNetwork, "Feed IPs to workers")
\* select, case workChan <- ip: the channel holds len(ips) values, so the send is ready
ProducerSend ==
    /\ ~panicked /\ ppc = "select" /\ pidx <= Len(ips)
    /\ Len(workChan) < Len(ips)
    /\ ~workClosed
    /\ workChan' = Append(workChan, ips[pidx])
    /\ ppc' = "inc"
    /\ UNCHANGED <<scanState, panicked, resultsClosed, stopClosed, ips, totalIPs, scannedCount, sentCount,
                   devices, workerStats, resultsChan, doneSignalled, workClosed, workers,
                   wgCount, wpc, wip, wdev, pidx, cpc>>
    /\ historyUnchanged /\ webUnchanged /\ auditUnchanged

\* atomic.AddInt32(&s.sentCount, 1), after the send
ProducerCount ==
    /\ ~panicked /\ ppc = "inc"
    /\ sentCount' = sentCount + 1
    /\ pidx' = pidx + 1
    /\ ppc' = "select"
    /\ UNCHANGED <<scanState, panicked, resultsClosed, stopClosed, ips, totalIPs, scannedCount,
                   devices, workerStats, resultsChan, doneSignalled, workChan, workClosed,
                   workers, wgCount, wpc, wip, wdev, cpc>>
    /\ historyUnchanged /\ webUnchanged /\ auditUnchanged

\* select, case <-s.stopChan: close(workChan); return
ProducerStopped ==
    /\ ~panicked /\ ppc = "select" /\ pidx <= Len(ips)
    /\ stopClosed
    /\ workClosed' = TRUE
    /\ ppc' = "done"
    /\ UNCHANGED <<scanState, panicked, resultsClosed, stopClosed, ips, totalIPs, scannedCount, sentCount,
                   devices, workerStats, resultsChan, doneSignalled, workChan, workers,
                   wgCount, wpc, wip, wdev, pidx, cpc>>
    /\ historyUnchanged /\ webUnchanged /\ auditUnchanged

\* after the loop: close(workChan)
ProducerClose ==
    /\ ~panicked /\ ppc = "select" /\ pidx > Len(ips)
    /\ workClosed' = TRUE
    /\ ppc' = "done"
    /\ UNCHANGED <<scanState, panicked, resultsClosed, stopClosed, ips, totalIPs, scannedCount, sentCount,
                   devices, workerStats, resultsChan, doneSignalled, workChan, workers,
                   wgCount, wpc, wip, wdev, pidx, cpc>>
    /\ historyUnchanged /\ webUnchanged /\ auditUnchanged


\* ---- worker goroutine (Scanner.worker)
\* if stat := s.workerStats[id]; stat != nil { ... }
StatUpdate(stats, id, stat) ==
    IF id \in DOMAIN stats THEN [stats EXCEPT ![id] = stat] ELSE stats

\* for ip := range workChan: a value is received
WorkerDequeue(w) ==
    /\ ~panicked /\ wpc[w] = "range"
    /\ workChan # <<>>
    /\ wip' = [wip EXCEPT ![w] = Head(workChan)]
    /\ workChan' = Tail(workChan)
    /\ wpc' = [wpc EXCEPT ![w] = "select"]
    /\ UNCHANGED <<scanState, panicked, resultsClosed, stopClosed, ips, totalIPs, scannedCount, sentCount,
                   devices, workerStats, resultsChan, doneSignalled, workClosed, workers,
                   wgCount, wdev, ppc, pidx, cpc>>
    /\ handed' = MapPut(handed, Head(workChan), CountOf(handed, Head(workChan)) + 1)
    /\ lateDequeued' = IF stopClosed THEN lateDequeued \cup {Head(workChan)} ELSE lateDequeued
    /\ UNCHANGED <<probed, writes>>
    /\ historyUnchanged /\ webUnchanged

\* for ip := range workChan: the channel is closed and empty, the loop ends
WorkerRangeEnd(w) ==
    /\ ~panicked /\ wpc[w] = "range"
    /\ workChan = <<>> /\ workClosed
    /\ wpc' = [wpc EXCEPT ![w] = "exit"]
    /\ UNCHANGED <<scanState, panicked, resultsClosed, stopClosed, ips, totalIPs, scannedCount, sentCount,
                   devices, workerStats, resultsChan, doneSignalled, workChan, workClosed,
                   workers, wgCount, wip, wdev, ppc, pidx, cpc>>
    /\ historyUnchanged /\ webUnchanged /\ auditUnchanged

\* select { case <-s.stopChan: return }
WorkerCancelled(w) ==
    /\ ~panicked /\ wpc[w] = "select"
    /\ stopClosed
    /\ wpc' = [wpc EXCEPT ![w] = "exit"]
    /\ wip' = [wip EXCEPT ![w] = NoIP]
    /\ UNCHANGED <<scanState, panicked, resultsClosed, stopClosed, ips, totalIPs, scannedCount, sentCount,
                   devices, workerStats, resultsChan, doneSignalled, workChan, workClosed,
                   workers, wgCount, wdev, ppc, pidx, cpc>>
    /\ historyUnchanged /\ webUnchanged /\ auditUnchanged

MarkScanning(ip, st) == [st EXCEPT !.CurrentIP = ip, !.State = "scanning"]

\* select { default: } and the first stats update (State = "scanning")
WorkerBegin(w) ==
    /\ ~panicked /\ wpc[w] = "select"
    /\ ~stopClosed
    /\ workerStats' = StatUpdate(workerStats, w, MarkScanning(wip[w], workerStats[w]))
    /\ wpc' = [wpc EXCEPT ![w] = "probe"]
    /\ UNCHANGED <<scanState, panicked, resultsClosed, stopClosed, ips, totalIPs, scannedCount, sentCount,
                   devices, resultsChan, doneSignalled, workChan, workClosed, workers,
                   wgCount, wip, wdev, ppc, pidx, cpc>>
    /\ historyUnchanged /\ webUnchanged /\ auditUnchanged

\* the Device a worker builds from IsReachable's result
DeviceOf(ip, r) ==
    IF r.reachable
    THEN [IPAddress |-> ip, Status |-> "Up", OpenPorts |-> r.openPorts]
    ELSE [IPAddress |-> ip, Status |-> "Down", OpenPorts |-> <<>>]

\* IsReachable(ipStr) and the construction of the local device
WorkerProbe(w, ans) ==
    /\ ~panicked /\ wpc[w] = "probe"
    /\ LET r == IsReachable(ans.mac, ans.arrived) IN
       /\ wdev' = [wdev EXCEPT ![w] = DeviceOf(wip[w], r)]
       /\ wpc' = [wpc EXCEPT ![w] = IF r.reachable THEN "found" ELSE "storeDown"]
    /\ UNCHANGED <<scanState, panicked, resultsClosed, stopClosed, ips, totalIPs, scannedCount, sentCount,
                   devices, workerStats, resultsChan, doneSignalled, workChan, workClosed,
                   workers, wgCount, wip, ppc, pidx, cpc>>
    /\ probed' = probed \cup {wip[w]}
    /\ UNCHANGED <<handed, lateDequeued, writes>>
    /\ historyUnchanged /\ webUnchanged

AddFound(st) == [st EXCEPT !.IPsFound = @ + 1]

\* atomic.AddInt32(&stat.IPsFound, 1) under statsLock
WorkerFound(w) ==
    /\ ~panicked /\ wpc[w] = "found"
    /\ workerStats' = StatUpdate(workerStats, w, AddFound(workerStats[w]))
    /\ wpc' = [wpc EXCEPT ![w] = "storeUp"]
    /\ UNCHANGED <<scanState, panicked, resultsClosed, stopClosed, ips, totalIPs, scannedCount, sentCount,
                   devices, resultsChan, doneSignalled, workChan, workClosed, workers,
                   wgCount, wip, wdev, ppc, pidx, cpc>>
    /\ historyUnchanged /\ webUnchanged /\ auditUnchanged

\* mutant of WorkerStoreUp: the worker goes on to the send without the map write
WorkerStoreUpSkipped(w) ==
    /\ ~panicked /\ wpc[w] = "storeUp"
    /\ wpc' = [wpc EXCEPT ![w] = "send"]
    /\ UNCHANGED <<scanState, panicked, resultsClosed, stopClosed, ips, totalIPs, scannedCount, sentCount,
                   devices, workerStats, resultsChan, doneSignalled, workChan, workClosed,
                   workers, wgCount, wip, wdev, ppc, pidx, cpc>>
    /\ UNCHANGED <<streamed, upOrder, dropped, counted, stoppedEarly>>
    /\ webUnchanged /\ auditUnchanged

\* s.devices[ipStr] = device (Up) under deviceMutex
WorkerStoreUp(w) ==
    /\ ~panicked /\ wpc[w] = "storeUp"
    /\ devices' = MapPut(devices, wip[w], wdev[w])
    /\ upOrder' = Append(upOrder, wip[w])
    /\ wpc' = [wpc EXCEPT ![w] = "send"]
    /\ UNCHANGED <<scanState, panicked, resultsClosed, stopClosed, ips, totalIPs, scannedCount, sentCount,
                   workerStats, resultsChan, doneSignalled, workChan, workClosed, workers,
                   wgCount, wip, wdev, ppc, pidx, cpc>>
    /\ UNCHANGED <<streamed, dropped, counted, stoppedEarly>>
    /\ writes' = MapPut(writes, wip[w], CountOf(writes, wip[w]) + 1)
    /\ UNCHANGED <<handed, lateDequeued, probed>>
    /\ webUnchanged

\* mutant of SendReady: the send is taken to be ready one slot too late
SendReadyOffByOne(ch) == Len(ch) + 1 < ResultsCap

\* select { case s.resultsChan <- device: default: }: is the buffered send ready
SendReady(ch) == Len(ch) < ResultsCap

\* mutant of WorkerSend: a plain (blocking) send, no default case
WorkerSendBlocking(w) ==
    /\ ~panicked /\ wpc[w] = "send"
    /\ SendReady(resultsChan)
    /\ resultsChan' = Append(resultsChan, wdev[w])
    /\ streamed' = Append(streamed, wdev[w])
    /\ wpc' = [wpc EXCEPT ![w] = "count"]
    /\ UNCHANGED <<scanState, panicked, resultsClosed, stopClosed, ips, totalIPs, scannedCount, sentCount,
                   devices, workerStats, doneSignalled, workChan, workClosed, workers,
                   wgCount, wip, wdev, ppc, pidx, cpc>>
    /\ UNCHANGED <<upOrder, dropped, counted, stoppedEarly>>
    /\ webUnchanged /\ auditUnchanged

\* the non-blocking send of the device on resultsChan
WorkerSend(w) ==
    /\ ~panicked /\ wpc[w] = "send"
    /\ IF SendReady(resultsChan)
       THEN /\ resultsChan' = Append(resultsChan, wdev[w])
            /\ streamed' = Append(streamed, wdev[w])
            /\ UNCHANGED dropped
       ELSE /\ dropped' = dropped \cup {wip[w]}
            /\ UNCHANGED <<resultsChan, streamed>>
    /\ wpc' = [wpc EXCEPT ![w] = "count"]
    /\ UNCHANGED <<scanState, panicked, resultsClosed, stopClosed, ips, totalIPs, scannedCount, sentCount,
                   devices, workerStats, doneSignalled, workChan, workClosed, workers,
                   wgCount, wip, wdev, ppc, pidx, cpc>>
    /\ UNCHANGED <<upOrder, counted, stoppedEarly>>
    /\ webUnchanged /\ auditUnchanged

\* s.devices[ipStr] = device (Down) under deviceMutex
WorkerStoreDown(w) ==
    /\ ~panicked /\ wpc[w] = "storeDown"
    /\ devices' = MapPut(devices, wip[w], wdev[w])
    /\ wpc' = [wpc EXCEPT ![w] = "count"]
    /\ UNCHANGED <<scanState, panicked, resultsClosed, stopClosed, ips, totalIPs, scannedCount, sentCount,
                   workerStats, resultsChan, doneSignalled, workChan, workClosed, workers,
                   wgCount, wip, wdev, ppc, pidx, cpc>>
    /\ writes' = MapPut(writes, wip[w], CountOf(writes, wip[w]) + 1)
    /\ UNCHANGED <<handed, lateDequeued, probed>>
    /\ historyUnchanged /\ webUnchanged

\* atomic.AddInt32(&s.scannedCount, 1)
WorkerCount(w) ==
    /\ ~panicked /\ wpc[w] = "count"
    /\ scannedCount' = scannedCount + 1
    /\ counted' = Append(counted, wip[w])
    /\ wpc' = [wpc EXCEPT ![w] = "stats"]
    /\ UNCHANGED <<scanState, panicked, resultsClosed, stopClosed, ips, totalIPs, sentCount,
                   devices, workerStats, resultsChan, doneSignalled, workChan, workClosed,
                   workers, wgCount, wip, wdev, ppc, pidx, cpc>>
    /\ UNCHANGED <<streamed, upOrder, dropped, stoppedEarly>>
    /\ webUnchanged /\ auditUnchanged

\* the second stats update: the worker's entry takes the global counters
WorkerStats(w) ==
    /\ ~panicked /\ wpc[w] = "stats"
    /\ workerStats' = StatUpdate(workerStats, w,
                          [workerStats[w] EXCEPT !.IPsScanned = scannedCount,
                                                  !.TotalIPs = totalIPs,
                                                  !.SentCount = sentCount])
    /\ wpc' = [wpc EXCEPT ![w] = "range"]
    /\ wip' = [wip EXCEPT ![w] = NoIP]
    /\ wdev' = [wdev EXCEPT ![w] = NoDevice]
    /\ UNCHANGED <<scanState, panicked, resultsClosed, stopClosed, ips, totalIPs, scannedCount, sentCount,
                   devices, resultsChan, doneSignalled, workChan, workClosed, workers,
                   wgCount, ppc, pidx, cpc>>
    /\ historyUnchanged /\ webUnchanged /\ auditUnchanged

\* deferred: delete(s.workerStats, id) under statsLock
WorkerExit(w) ==
    /\ ~panicked /\ wpc[w] = "exit"
    /\ workerStats' = MapDelete(workerStats, w)
    /\ wpc' = [wpc EXCEPT ![w] = "wgdone"]
    /\ UNCHANGED <<scanState, panicked, resultsClosed, stopClosed, ips, totalIPs, scannedCount, sentCount,
                   devices, resultsChan, doneSignalled, workChan, workClosed, workers,
                   wgCount, wip, wdev, ppc, pidx, cpc>>
    /\ historyUnchanged /\ webUnchanged /\ auditUnchanged

\* deferred: wg.Done(), the worker has returned
WorkerDone(w) ==
    /\ ~panicked /\ wpc[w] = "wgdone"
    /\ wgCount' = wgCount - 1
    /\ wpc' = [wpc EXCEPT ![w] = "returned"]
    /\ UNCHANGED <<scanState, panicked, resultsClosed, stopClosed, ips, totalIPs, scannedCount, sentCount,
                   devices, workerStats, resultsChan, doneSignalled, workChan, workClosed,
                   workers, wip, wdev, ppc, pidx, cpc>>
    /\ historyUnchanged /\ webUnchanged /\ auditUnchanged

\* ---- completion goroutine (ScanNetwork, "Wait for completion")
\* mutant of CompletionJoin: the completion goroutine does not wait for the workers
CompletionJoinNoWait ==
    /\ ~panicked /\ cpc = "wait"
    /\ cpc' = "credit"
    /\ UNCHANGED <<scanState, panicked, resultsClosed, stopClosed, ips, totalIPs, scannedCount, sentCount,
                   devices, workerStats, resultsChan, doneSignalled, workChan, workClosed,
                   workers, wgCount, wpc, wip, wdev, ppc, pidx>>
    /\ UNCHANGED <<streamed, upOrder, dropped, counted, stoppedEarly>>
    /\ webUnchanged /\ auditUnchanged

\* wg.Wait() returns
CompletionJoin ==
    /\ ~panicked /\ cpc = "wait"
    /\ wgCount = 0
    /\ cpc' = "credit"
    /\ UNCHANGED <<scanState, panicked, resultsClosed, stopClosed, ips, totalIPs, scannedCount, sentCount,
                   devices, workerStats, resultsChan, doneSignalled, workChan, workClosed,
                   workers, wgCount, wpc, wip, wdev, ppc, pidx>>
    /\ historyUnchanged /\ webUnchanged /\ auditUnchanged

\* mutant of Credit: without a positive remainder the counter takes the remainder
CreditTakesRemainder(sent, scanned) ==
    LET remaining == sent - scanned
    IN IF remaining > 0 THEN scanned + remaining ELSE remaining

\* remaining := sentCount - scannedCount; if remaining > 0 { scannedCount += remaining }
Credit(sent, scanned) ==
    LET remaining == sent - scanned
    IN IF remaining > 0 THEN scanned + remaining ELSE scanned

\* the drain credit, then s.mdnsWg.Wait(): every mDNS goroutine was joined by its worker
CompletionCredit ==
    /\ ~panicked /\ cpc = "credit"
    /\ scannedCount' = Credit(sentCount, scannedCount)
    /\ cpc' = "send"
    /\ UNCHANGED <<scanState, panicked, resultsClosed, stopClosed, ips, totalIPs, sentCount,
                   devices, workerStats, resultsChan, doneSignalled, workChan, workClosed,
                   workers, wgCount, wpc, wip, wdev, ppc, pidx>>
    /\ historyUnchanged /\ webUnchanged /\ auditUnchanged

\* s.doneChan <- true meets a consumer's <-doneChan (the channel is unbuffered)
CompletionSendDone ==
    /\ ~panicked /\ cpc = "send"
    /\ doneSignalled' = TRUE
    /\ cpc' = "done"
    /\ UNCHANGED <<scanState, panicked, resultsClosed, stopClosed, ips, totalIPs, scannedCount, sentCount,
                   devices, workerStats, resultsChan, workChan, workClosed,
                   workers, wgCount, wpc, wip, wdev, ppc, pidx>>
    /\ historyUnchanged /\ webUnchanged /\ auditUnchanged

\* ---- the consumer of GetResults(): it reads devices until it has seen done
ConsumerRecvResult ==
    /\ ~panicked /\ ~doneSignalled
    /\ scanState = "running"
    /\ resultsChan # <<>>
    /\ resultsChan' = Tail(resultsChan)
    /\ UNCHANGED <<scanState, panicked, resultsClosed, stopClosed, ips, totalIPs, scannedCount, sentCount,
                   devices, workerStats, doneSignalled, workChan, workClosed,
                   workers, wgCount, wpc, wip, wdev, ppc, pidx, cpc>>
    /\ historyUnchanged /\ webUnchanged /\ auditUnchanged

WorkerStep(w) ==
    \/ WorkerDequeue(w) \/ WorkerRangeEnd(w) \/ WorkerCancelled(w) \/ WorkerBegin(w)
    \/ (\E ans \in ProbeAnswers : WorkerProbe(w, ans))
    \/ WorkerFound(w) \/ WorkerStoreUp(w) \/ WorkerSend(w) \/ WorkerStoreDown(w)
    \/ WorkerCount(w) \/ WorkerStats(w) \/ WorkerExit(w) \/ WorkerDone(w)

ProducerStep == ProducerSend \/ ProducerCount \/ ProducerStopped \/ ProducerClose

CompletionStep == CompletionJoin \/ CompletionCredit \/ CompletionSendDone

EngineNext ==
    \/ \E cidr \in CIDRInputs, n \in 1..MaxWorkers : ScanNetwork(cidr, n)
    \/ Stop
    \/ ProducerSend \/ ProducerCount \/ ProducerStopped \/ ProducerClose
    \/ \E w \in WorkerIds : WorkerDequeue(w)
    \/ \E w \in WorkerIds : WorkerRangeEnd(w)
    \/ \E w \in WorkerIds : WorkerCancelled(w)
    \/ \E w \in WorkerIds : WorkerBegin(w)
    \/ \E w \in WorkerIds, ans \in ProbeAnswers : WorkerProbe(w, ans)
    \/ \E w \in WorkerIds : WorkerFound(w)
    \/ \E w \in WorkerIds : WorkerStoreUp(w)
    \/ \E w \in WorkerIds : WorkerSend(w)
    \/ \E w \in WorkerIds : WorkerStoreDown(w)
    \/ \E w \in WorkerIds : WorkerCount(w)
    \/ \E w \in WorkerIds : WorkerStats(w)
    \/ \E w \in WorkerIds : WorkerExit(w)
    \/ \E w \in WorkerIds : WorkerDone(w)
    \/ CompletionJoin \/ CompletionCredit \/ CompletionSendDone
    \/ ConsumerRecvResult

\* ----------------------------------------------------------- web.Server
ScanIds == 1..MaxScans

\* NewServer
WebInit ==
    /\ scanActive = FALSE
    /\ srvScanner = 0
    /\ created = 0
    /\ srvDevices = {}
    /\ srvPanicked = FALSE
    /\ handlerPanicked = FALSE
    /\ startPc = "idle"
    /\ startCidr = TRUE
    /\ dumpPc = "idle"
    /\ engRuns = [i \in ScanIds |-> 0]
    /\ engDone = [i \in ScanIds |-> 0]
    /\ engStop = [i \in ScanIds |-> FALSE]
    /\ engResults = [i \in ScanIds |-> 0]
    /\ gpc = [i \in ScanIds |-> "none"]
    /\ gsc = [i \in ScanIds |-> 0]
    /\ gcidr = [i \in ScanIds |-> TRUE]
    /\ tpc = [i \in ScanIds |-> "none"]

\* no function is called on its own
DefaultCidr == [IP |-> BaseIP, Bits |-> 32]
NoOutcome == [returned |-> FALSE, ips |-> <<>>]
NoReturn == [reachable |-> FALSE, openPorts |-> <<>>, device |-> NoDevice]

FuncIdle ==
    /\ task = "none" /\ fpc = "call"
    /\ enumCidr = DefaultCidr /\ enumOut = NoOutcome
    /\ prMac = <<>> /\ prSucc = {} /\ prPending = {}
    /\ prResults = <<>> /\ prClosed = FALSE /\ prArrived = <<>>
    /\ prOpen = <<>> /\ prReach = FALSE /\ prRet = NoReturn
    /\ macToken = <<>> /\ macOut = <<>>

\* no parser is called on its own
NoParse == [name |-> <<>>, err |-> "", read |-> -1]

ParseIdle ==
    /\ parseTask = "none" /\ parsePc = "call"
    /\ normIn = <<>> /\ normOut = <<>> /\ normAgain = <<>>
    /\ nbResp = <<>> /\ nbRet = NoParse
    /\ rdpResp = <<>> /\ rdpDials = 0 /\ rdpRet = ""

\* a worker's device before it has probed an IP
NoHostDevice ==
    [IPAddress |-> NoIP, Status |-> "", OpenPorts |-> {}, Hostname |-> <<>>, DeviceType |-> ""]

\* no scan with hostname resolution runs
HostIdle ==
    /\ hQueue = <<>>
    /\ hpc = [w \in WorkerIds |-> "none"]
    /\ hip = [w \in WorkerIds |-> NoIP]
    /\ hDev = [w \in WorkerIds |-> NoHostDevice]
    /\ hgpc = [w \in WorkerIds |-> "none"]
    /\ hgName = [w \in WorkerIds |-> <<>>]
    /\ hQuery = {}
    /\ hMutex = "free"
    /\ hWorkerStats = {}
    /\ hDevices = EmptyMap
    /\ hResults = 0 /\ hScanned = 0
    /\ hrpc = "idle"
    /\ hTried = [w \in WorkerIds |-> <<>>]
    /\ hBy = [w \in WorkerIds |-> ""]
    /\ hClassified = [w \in WorkerIds |-> FALSE]
    /\ hWrites = EmptyMap /\ hCounted = EmptyMap

\* cleanHostname is not called on its own
CleanIdle == clIn = <<>> /\ clOut = <<>> /\ clAgain = <<>>

\* IsReachable is not followed goroutine by goroutine
ReachIdle ==
    /\ irPc = "none"
    /\ irDialOk = 0 /\ irDialFail = 0 /\ irResults = 0
    /\ irClosed = FALSE /\ irOpenPorts = 0 /\ irWasFull = FALSE

DetailIdle == ParseIdle /\ HostIdle /\ CleanIdle /\ ReachIdle

\* the ScanNetwork calls one Scanner receives in ReuseSpec, in this order
CallIds == {1, 2}

\* NewScanner, for the Scanner of ReuseSpec
ReuseInit ==
    /\ rcpc = [c \in CallIds |-> "none"]
    /\ rn = [c \in CallIds |-> 0]
    /\ rips = [c \in CallIds |-> <<>>]
    /\ ri = [c \in CallIds |-> 0]
    /\ rTotalIPs = 0 /\ rScannedCount = 0 /\ rSentCount = 0
    /\ rDevices = EmptyMap
    /\ rWorkerStats = EmptyMap
    /\ rWorkChan = [c \in CallIds |-> <<>>]
    /\ rWorkClosed = [c \in CallIds |-> FALSE]
    /\ rpidx = [c \in CallIds |-> 1]
    /\ rppc = [c \in CallIds |-> "none"]
    /\ rwpc = [c \in CallIds |-> [w \in WorkerIds |-> "none"]]
    /\ rwip = [c \in CallIds |-> [w \in WorkerIds |-> NoIP]]
    /\ rwg = [c \in CallIds |-> 0]
    /\ rccpc = [c \in CallIds |-> "none"]
    /\ rOverlap = [c \in CallIds |-> FALSE]

Init == EngineInit /\ WebInit /\ FuncIdle /\ ReuseInit /\ DetailIdle

Next == EngineNext

Spec == Init /\ [][Next]_vars


\* ---- web.Server operations; each Scanner is summarised by engRuns, engDone,
\* engStop and engResults
engineUnchanged == UNCHANGED <<engineVars, funcVars, reuseVars, detailVars>>

\* StartScan up to the release of scanMutex: reject when scanActive, else set it
StartScanCheck(valid) ==
    /\ ~srvPanicked /\ startPc = "idle" /\ created < MaxScans
    /\ IF scanActive
       THEN UNCHANGED <<scanActive, startPc, startCidr>>
       ELSE /\ scanActive' = TRUE
            /\ startPc' = "create"
            /\ startCidr' = valid
    /\ UNCHANGED <<srvScanner, created, srvDevices, srvPanicked, handlerPanicked, dumpPc,
                   engRuns, engDone, engStop, engResults, gpc, gsc, gcidr, tpc>>
    /\ engineUnchanged

\* StartScan after the check: s.scanner = NewScanner(false), s.devices reset, go func()
StartScanCreate ==
    /\ ~srvPanicked /\ startPc = "create"
    /\ created' = created + 1
    /\ srvScanner' = created + 1
    /\ srvDevices' = {}
    /\ gpc' = [gpc EXCEPT ![created + 1] = "start"]
    /\ gcidr' = [gcidr EXCEPT ![created + 1] = startCidr]
    /\ startPc' = "idle"
    /\ UNCHANGED <<scanActive, srvPanicked, handlerPanicked, startCidr, dumpPc,
                   engRuns, engDone, engStop, engResults, gsc, tpc>>
    /\ engineUnchanged

\* StopScan, when scanActive && s.scanner != nil: s.scanner.Stop(); scanActive = false.
\* Stop on a closed stopChan panics before scanActive is cleared.
StopScan ==
    /\ ~srvPanicked
    /\ scanActive /\ srvScanner # 0
    /\ IF engStop[srvScanner]
       THEN /\ handlerPanicked' = TRUE
            /\ UNCHANGED <<engStop, scanActive>>
       ELSE /\ engStop' = [engStop EXCEPT ![srvScanner] = TRUE]
            /\ scanActive' = FALSE
            /\ UNCHANGED handlerPanicked
    /\ UNCHANGED <<srvScanner, created, srvDevices, srvPanicked, startPc, startCidr, dumpPc,
                   engRuns, engDone, engResults, gpc, gsc, gcidr, tpc>>
    /\ engineUnchanged

\* DumpScan: s.StopScan()
DumpStop ==
    /\ ~srvPanicked /\ dumpPc = "idle"
    /\ IF scanActive /\ srvScanner # 0
       THEN IF engStop[srvScanner]
            THEN /\ handlerPanicked' = TRUE
                 /\ UNCHANGED <<engStop, scanActive, dumpPc>>
            ELSE /\ engStop' = [engStop EXCEPT ![srvScanner] = TRUE]
                 /\ scanActive' = FALSE
                 /\ dumpPc' = "clear"
                 /\ UNCHANGED handlerPanicked
       ELSE /\ dumpPc' = "clear"
            /\ UNCHANGED <<engStop, scanActive, handlerPanicked>>
    /\ UNCHANGED <<srvScanner, created, srvDevices, srvPanicked, startPc, startCidr,
                   engRuns, engDone, engResults, gpc, gsc, gcidr, tpc>>
    /\ engineUnchanged

\* DumpScan: s.devices = make(...)
DumpClear ==
    /\ ~srvPanicked /\ dumpPc = "clear"
    /\ srvDevices' = {}
    /\ dumpPc' = "reset"
    /\ UNCHANGED <<scanActive, srvScanner, created, srvPanicked, handlerPanicked, startPc,
                   startCidr, engRuns, engDone, engStop, engResults, gpc, gsc, gcidr, tpc>>
    /\ engineUnchanged

\* DumpScan: scanActive = false; s.scanner = nil
DumpReset ==
    /\ ~srvPanicked /\ dumpPc = "reset"
    /\ scanActive' = FALSE
    /\ srvScanner' = 0
    /\ dumpPc' = "idle"
    /\ UNCHANGED <<created, srvDevices, srvPanicked, handlerPanicked, startPc, startCidr,
                   engRuns, engDone, engStop, engResults, gpc, gsc, gcidr, tpc>>
    /\ engineUnchanged

\* the StartScan goroutine: s.scanner.ScanNetwork(cidr, 50) on the Scanner s.scanner
\* names now; ScanNetwork makes a fresh stopChan and, for a CIDR that parses, starts a run
GoScanNetwork(i) ==
    /\ ~srvPanicked /\ gpc[i] = "start"
    /\ IF srvScanner = 0
       THEN /\ srvPanicked' = TRUE
            /\ UNCHANGED <<engStop, engRuns, gpc>>
       ELSE /\ engStop' = [engStop EXCEPT ![srvScanner] = FALSE]
            /\ engRuns' = IF gcidr[i] THEN [engRuns EXCEPT ![srvScanner] = @ + 1] ELSE engRuns
            /\ gpc' = [gpc EXCEPT ![i] = IF gcidr[i] THEN "getResults" ELSE "deferred"]
            /\ UNCHANGED srvPanicked
    /\ UNCHANGED <<scanActive, srvScanner, created, srvDevices, handlerPanicked, startPc,
                   startCidr, dumpPc, engDone, engResults, gsc, gcidr, tpc>>
    /\ engineUnchanged

\* the StartScan goroutine: s.scanner.GetResults(), then go (progress goroutine)
GoGetResults(i) ==
    /\ ~srvPanicked /\ gpc[i] = "getResults"
    /\ IF srvScanner = 0
       THEN /\ srvPanicked' = TRUE
            /\ UNCHANGED <<gsc, tpc, gpc>>
       ELSE /\ gsc' = [gsc EXCEPT ![i] = srvScanner]
            /\ tpc' = [tpc EXCEPT ![i] = "select"]
            /\ gpc' = [gpc EXCEPT ![i] = "loop"]
            /\ UNCHANGED srvPanicked
    /\ UNCHANGED <<scanActive, srvScanner, created, srvDevices, handlerPanicked, startPc,
                   startCidr, dumpPc, engRuns, engDone, engStop, engResults, gcidr>>
    /\ engineUnchanged

\* result loop, case device := <-resultsChan
GoRecvDevice(i) ==
    /\ ~srvPanicked /\ gpc[i] = "loop"
    /\ engResults[gsc[i]] > 0
    /\ engResults' = [engResults EXCEPT ![gsc[i]] = @ - 1]
    /\ srvDevices' = srvDevices \cup {gsc[i]}
    /\ UNCHANGED <<scanActive, srvScanner, created, srvPanicked, handlerPanicked, startPc,
                   startCidr, dumpPc, engRuns, engDone, engStop, gpc, gsc, gcidr, tpc>>
    /\ engineUnchanged

\* result loop, case <-doneChan
GoRecvDone(i) ==
    /\ ~srvPanicked /\ gpc[i] = "loop"
    /\ engDone[gsc[i]] > 0
    /\ engDone' = [engDone EXCEPT ![gsc[i]] = @ - 1]
    /\ gpc' = [gpc EXCEPT ![i] = "waitProgress"]
    /\ UNCHANGED <<scanActive, srvScanner, created, srvDevices, srvPanicked, handlerPanicked,
                   startPc, startCidr, dumpPc, engRuns, engStop, engResults, gsc, gcidr, tpc>>
    /\ engineUnchanged

\* result loop, <-progressDone
GoProgressJoined(i) ==
    /\ ~srvPanicked /\ gpc[i] = "waitProgress"
    /\ tpc[i] = "closed"
    /\ gpc' = [gpc EXCEPT ![i] = "final"]
    /\ UNCHANGED <<scanActive, srvScanner, created, srvDevices, srvPanicked, handlerPanicked,
                   startPc, startCidr, dumpPc, engRuns, engDone, engStop, engResults, gsc,
                   gcidr, tpc>>
    /\ engineUnchanged

\* result loop: the final broadcasts (scan_complete), then scanActive = false
GoFinal(i) ==
    /\ ~srvPanicked /\ gpc[i] = "final"
    /\ scanActive' = FALSE
    /\ gpc' = [gpc EXCEPT ![i] = "deferred"]
    /\ UNCHANGED <<srvScanner, created, srvDevices, srvPanicked, handlerPanicked, startPc,
                   startCidr, dumpPc, engRuns, engDone, engStop, engResults, gsc, gcidr, tpc>>
    /\ engineUnchanged

\* the StartScan goroutine's deferred scanActive = false
GoDeferred(i) ==
    /\ ~srvPanicked /\ gpc[i] = "deferred"
    /\ scanActive' = FALSE
    /\ gpc' = [gpc EXCEPT ![i] = "exited"]
    /\ UNCHANGED <<srvScanner, created, srvDevices, srvPanicked, handlerPanicked, startPc,
                   startCidr, dumpPc, engRuns, engDone, engStop, engResults, gsc, gcidr, tpc>>
    /\ engineUnchanged

\* progress goroutine, case <-doneChan: one last progress update, return
TickRecvDone(i) ==
    /\ ~srvPanicked /\ tpc[i] = "select"
    /\ engDone[gsc[i]] > 0
    /\ engDone' = [engDone EXCEPT ![gsc[i]] = @ - 1]
    /\ tpc' = [tpc EXCEPT ![i] = "closed"]
    /\ UNCHANGED <<scanActive, srvScanner, created, srvDevices, srvPanicked, handlerPanicked,
                   startPc, startCidr, dumpPc, engRuns, engStop, engResults, gpc, gsc, gcidr>>
    /\ engineUnchanged

\* progress goroutine, case <-ticker.C with !active || scanner == nil: return
\* (with a scan active the tick only broadcasts progress and the loop goes on)
TickInactive(i) ==
    /\ ~srvPanicked /\ tpc[i] = "select"
    /\ ~scanActive \/ srvScanner = 0
    /\ tpc' = [tpc EXCEPT ![i] = "closed"]
    /\ UNCHANGED <<scanActive, srvScanner, created, srvDevices, srvPanicked, handlerPanicked,
                   startPc, startCidr, dumpPc, engRuns, engDone, engStop, engResults, gpc,
                   gsc, gcidr>>
    /\ engineUnchanged

\* a worker of a running scan puts a device on resultsChan (non-blocking send)
EngineEmit(j) ==
    /\ ~srvPanicked /\ engRuns[j] > 0
    /\ engResults[j] < ResultsCap
    /\ engResults' = [engResults EXCEPT ![j] = @ + 1]
    /\ UNCHANGED <<scanActive, srvScanner, created, srvDevices, srvPanicked, handlerPanicked,
                   startPc, startCidr, dumpPc, engRuns, engDone, engStop, gpc, gsc, gcidr, tpc>>
    /\ engineUnchanged

\* the workers of a run have all returned: its completion goroutine reaches s.doneChan <- true
EngineComplete(j) ==
    /\ ~srvPanicked /\ engRuns[j] > 0
    /\ engRuns' = [engRuns EXCEPT ![j] = @ - 1]
    /\ engDone' = [engDone EXCEPT ![j] = @ + 1]
    /\ UNCHANGED <<scanActive, srvScanner, created, srvDevices, srvPanicked, handlerPanicked,
                   startPc, startCidr, dumpPc, engStop, engResults, gpc, gsc, gcidr, tpc>>
    /\ engineUnchanged

WebNext ==
    \/ \E valid \in BOOLEAN : StartScanCheck(valid)
    \/ StartScanCreate
    \/ StopScan
    \/ DumpStop \/ DumpClear \/ DumpReset
    \/ \E i \in ScanIds : GoScanNetwork(i)
    \/ \E i \in ScanIds : GoGetResults(i)
    \/ \E i \in ScanIds : GoRecvDevice(i)
    \/ \E i \in ScanIds : GoRecvDone(i)
    \/ \E i \in ScanIds : GoProgressJoined(i)
    \/ \E i \in ScanIds : GoFinal(i)
    \/ \E i \in ScanIds : GoDeferred(i)
    \/ \E i \in ScanIds : TickRecvDone(i)
    \/ \E i \in ScanIds : TickInactive(i)
    \/ \E j \in ScanIds : EngineEmit(j)
    \/ \E j \in ScanIds : EngineComplete(j)

WebSpec == Init /\ [][WebNext]_vars

\* ---------------------------------------------- functions called on their own
\* GetMACFromIP's answers to IsReachable: none, or a normalised address
MacAnswers == {<<>>, GetMACFromIP(JoinGroups([i \in 1..6 |-> <<"F", "F">>], ":"))}

\* one call of GetAllIPs, of IsReachable or of GetMACFromIP, on inputs drawn here
FuncInit ==
    /\ EngineInit /\ WebInit /\ ReuseInit /\ DetailIdle
    /\ task \in {"enum", "probe", "mac"}
    /\ fpc = "call"
    /\ enumCidr \in (IF task = "enum" THEN EnumInputs ELSE {DefaultCidr})
    /\ enumOut = NoOutcome
    /\ prMac \in (IF task = "probe" THEN MacAnswers ELSE {<<>>})
    /\ prSucc \in (IF task = "probe" THEN SUBSET ProbePorts ELSE {{}})
    /\ prPending = {}
    /\ prResults = <<>> /\ prClosed = FALSE /\ prArrived = <<>>
    /\ prOpen = <<>> /\ prReach = FALSE /\ prRet = NoReturn
    /\ macToken \in (IF task = "mac" THEN MacTokens ELSE {<<>>})
    /\ macOut = <<>>

\* ips := GetAllIPs(ipNet) on the block net.ParseCIDR returned
EnumCall ==
    /\ task = "enum" /\ fpc = "call"
    /\ enumOut' = GetAllIPsCall(ParseCIDR(enumCidr))
    /\ fpc' = "done"
    /\ UNCHANGED <<task, enumCidr, prMac, prSucc, prPending, prResults, prClosed, prArrived,
                   prOpen, prReach, prRet, macToken, macOut>>
    /\ UNCHANGED <<engineVars, webVars, reuseVars, detailVars>>

\* IsReachable up to the start of the probe goroutines
ProbeStart ==
    /\ task = "probe" /\ fpc = "call"
    /\ prReach' = (prMac # <<>>)
    /\ prPending' = ProbePorts
    /\ fpc' = "run"
    /\ UNCHANGED <<task, enumCidr, enumOut, prMac, prSucc, prResults, prClosed, prArrived,
                   prOpen, prRet, macToken, macOut>>
    /\ UNCHANGED <<engineVars, webVars, reuseVars, detailVars>>

\* mutant of ProbeReport: a successful probe sends its port but leaves isReachable alone
ProbeReportNoFlag(p) ==
    /\ task = "probe" /\ fpc = "run" /\ p \in prPending
    /\ IF p \in prSucc
       THEN /\ Len(prResults) < ProbeChanCap
            /\ prResults' = Append(prResults, p)
            /\ prArrived' = Append(prArrived, p)
       ELSE UNCHANGED <<prResults, prArrived>>
    /\ prPending' = prPending \ {p}
    /\ UNCHANGED <<task, fpc, enumCidr, enumOut, prMac, prSucc, prClosed, prOpen, prReach,
                   prRet, macToken, macOut>>
    /\ UNCHANGED <<engineVars, webVars, reuseVars, detailVars>>

\* one probe goroutine ends: on success results <- p; isReachable = true
ProbeReport(p) ==
    /\ task = "probe" /\ fpc = "run" /\ p \in prPending
    /\ IF p \in prSucc
       THEN /\ Len(prResults) < ProbeChanCap
            /\ prResults' = Append(prResults, p)
            /\ prArrived' = Append(prArrived, p)
            /\ prReach' = TRUE
       ELSE UNCHANGED <<prResults, prArrived, prReach>>
    /\ prPending' = prPending \ {p}
    /\ UNCHANGED <<task, fpc, enumCidr, enumOut, prMac, prSucc, prClosed, prOpen, prRet,
                   macToken, macOut>>
    /\ UNCHANGED <<engineVars, webVars, reuseVars, detailVars>>

\* go func() { wg.Wait(); close(results) }()
ProbeClose ==
    /\ task = "probe" /\ fpc = "run"
    /\ prPending = {} /\ ~prClosed
    /\ prClosed' = TRUE
    /\ UNCHANGED <<task, fpc, enumCidr, enumOut, prMac, prSucc, prPending, prResults, prArrived,
                   prOpen, prReach, prRet, macToken, macOut>>
    /\ UNCHANGED <<engineVars, webVars, reuseVars, detailVars>>

\* for port := range results { openPorts = append(openPorts, port) }
ProbeCollect ==
    /\ task = "probe" /\ fpc = "run"
    /\ prResults # <<>>
    /\ prOpen' = Append(prOpen, Head(prResults))
    /\ prResults' = Tail(prResults)
    /\ UNCHANGED <<task, fpc, enumCidr, enumOut, prMac, prSucc, prPending, prClosed, prArrived,
                   prReach, prRet, macToken, macOut>>
    /\ UNCHANGED <<engineVars, webVars, reuseVars, detailVars>>

\* mutant of ProbeReturn: the collected ports are returned as they arrived
ProbeReturnUnsorted ==
    /\ task = "probe" /\ fpc = "run"
    /\ prResults = <<>> /\ prClosed
    /\ LET r == [reachable |-> prReach, openPorts |-> prOpen] IN
       prRet' = [reachable |-> r.reachable, openPorts |-> r.openPorts,
                 device |-> DeviceOf(BaseIP, r)]
    /\ fpc' = "done"
    /\ UNCHANGED <<task, enumCidr, enumOut, prMac, prSucc, prPending, prResults, prClosed,
                   prArrived, prOpen, prReach, macToken, macOut>>
    /\ UNCHANGED <<engineVars, webVars, reuseVars, detailVars>>

\* the range loop ends on the closed channel: sort.Ints(openPorts); return; the
\* worker builds its Device from the returned pair
ProbeReturn ==
    /\ task = "probe" /\ fpc = "run"
    /\ prResults = <<>> /\ prClosed
    /\ LET r == [reachable |-> prReach, openPorts |-> SortInts(prOpen)] IN
       prRet' = [reachable |-> r.reachable, openPorts |-> r.openPorts,
                 device |-> DeviceOf(BaseIP, r)]
    /\ fpc' = "done"
    /\ UNCHANGED <<task, enumCidr, enumOut, prMac, prSucc, prPending, prResults, prClosed,
                   prArrived, prOpen, prReach, macToken, macOut>>
    /\ UNCHANGED <<engineVars, webVars, reuseVars, detailVars>>

\* GetMACFromIP: the regex's token goes through NormalizeMACAddress
MacLookup ==
    /\ task = "mac" /\ fpc = "call"
    /\ macOut' = GetMACFromIP(macToken)
    /\ fpc' = "done"
    /\ UNCHANGED <<task, enumCidr, enumOut, prMac, prSucc, prPending, prResults, prClosed,
                   prArrived, prOpen, prReach, prRet, macToken>>
    /\ UNCHANGED <<engineVars, webVars, reuseVars, detailVars>>

FuncNext ==
    \/ EnumCall
    \/ ProbeStart
    \/ \E p \in ProbePorts : ProbeReport(p)
    \/ ProbeClose
    \/ ProbeCollect
    \/ ProbeReturn
    \/ MacLookup

FuncSpec == FuncInit /\ [][FuncNext]_vars

\* ------------------------------- one Scanner, more than one ScanNetwork call
\* Stop is not called in ReuseSpec, and of a map entry only its key and the call
\* that wrote it are followed.
reuseOnly == UNCHANGED <<engineVars, webVars, funcVars, detailVars>>

\* the scan of call c has begun and not all of its goroutines have finished
ScanLive(c) ==
    \/ rcpc[c] \in {"counters", "devices", "spawn"}
    \/ \E w \in WorkerIds : rwpc[c][w] \notin {"none", "returned"}

\* mutant of ReScanNetwork: the counters and the device map are reset before the CIDR is parsed
ReScanNetworkResetFirst(c, cidr, n) ==
    /\ rcpc[c] = "none"
    /\ \A d \in CallIds : d < c => rcpc[d] # "none"
    /\ rOverlap' = [rOverlap EXCEPT ![c] = \E d \in CallIds : d < c /\ ScanLive(d)]
    /\ LET parsed == ParseCIDR(cidr) IN
       IF ~parsed.ok
       THEN /\ rcpc' = [rcpc EXCEPT ![c] = "failed"]
            /\ rTotalIPs' = 0 /\ rScannedCount' = 0 /\ rSentCount' = 0
            /\ rDevices' = EmptyMap
            /\ UNCHANGED <<rn, rips>>
       ELSE /\ rcpc' = [rcpc EXCEPT ![c] = "counters"]
            /\ rn' = [rn EXCEPT ![c] = n]
            /\ rips' = [rips EXCEPT ![c] = GetAllIPs(parsed)]
            /\ UNCHANGED <<rTotalIPs, rScannedCount, rSentCount, rDevices>>
    /\ UNCHANGED <<ri, rWorkerStats, rWorkChan, rWorkClosed,
                   rpidx, rppc, rwpc, rwip, rwg, rccpc>>
    /\ UNCHANGED <<engineVars, webVars, funcVars, detailVars>>

\* ScanNetwork(cidr, n) up to ips := GetAllIPs(ipNet), or to return err
ReScanNetwork(c, cidr, n) ==
    /\ rcpc[c] = "none"
    /\ \A d \in CallIds : d < c => rcpc[d] # "none"
    /\ rOverlap' = [rOverlap EXCEPT ![c] = \E d \in CallIds : d < c /\ ScanLive(d)]
    /\ LET parsed == ParseCIDR(cidr) IN
       IF ~parsed.ok
       THEN /\ rcpc' = [rcpc EXCEPT ![c] = "failed"]
            /\ UNCHANGED <<rn, rips>>
       ELSE /\ rcpc' = [rcpc EXCEPT ![c] = "counters"]
            /\ rn' = [rn EXCEPT ![c] = n]
            /\ rips' = [rips EXCEPT ![c] = GetAllIPs(parsed)]
    /\ UNCHANGED <<ri, rTotalIPs, rScannedCount, rSentCount, rDevices, rWorkerStats,
                   rWorkChan, rWorkClosed, rpidx, rppc, rwpc, rwip, rwg, rccpc>>
    /\ reuseOnly

\* the three atomic stores: totalIPs, scannedCount = 0, sentCount = 0
ReStoreCounters(c) ==
    /\ rcpc[c] = "counters"
    /\ rTotalIPs' = Len(rips[c])
    /\ rScannedCount' = 0
    /\ rSentCount' = 0
    /\ rcpc' = [rcpc EXCEPT ![c] = "devices"]
    /\ UNCHANGED <<rn, rips, ri, rDevices, rWorkerStats, rWorkChan, rWorkClosed,
                   rpidx, rppc, rwpc, rwip, rwg, rccpc, rOverlap>>
    /\ reuseOnly

\* s.devices = make(map[string]Device); workChan := make(chan net.IP, len(ips))
ReResetDevices(c) ==
    /\ rcpc[c] = "devices"
    /\ rDevices' = EmptyMap
    /\ rcpc' = [rcpc EXCEPT ![c] = "spawn"]
    /\ UNCHANGED <<rn, rips, ri, rTotalIPs, rScannedCount, rSentCount, rWorkerStats,
                   rWorkChan, rWorkClosed, rpidx, rppc, rwpc, rwip, rwg, rccpc, rOverlap>>
    /\ reuseOnly

\* one round of the spawn loop: wg.Add(1); s.workerStats[i] = &WorkerStatus{...}; go s.worker(i, ...)
ReSpawnWorker(c) ==
    /\ rcpc[c] = "spawn" /\ ri[c] < rn[c]
    /\ rwg' = [rwg EXCEPT ![c] = @ + 1]
    /\ rWorkerStats' = MapPut(rWorkerStats, ri[c], c)
    /\ rwpc' = [rwpc EXCEPT ![c][ri[c]] = "range"]
    /\ ri' = [ri EXCEPT ![c] = @ + 1]
    /\ UNCHANGED <<rcpc, rn, rips, rTotalIPs, rScannedCount, rSentCount, rDevices,
                   rWorkChan, rWorkClosed, rpidx, rppc, rwip, rccpc, rOverlap>>
    /\ reuseOnly

\* after the loop: go (producer), go (completion), return nil
ReLaunch(c) ==
    /\ rcpc[c] = "spawn" /\ ri[c] = rn[c]
    /\ rppc' = [rppc EXCEPT ![c] = "run"]
    /\ rccpc' = [rccpc EXCEPT ![c] = "wait"]
    /\ rcpc' = [rcpc EXCEPT ![c] = "returned"]
    /\ UNCHANGED <<rn, rips, ri, rTotalIPs, rScannedCount, rSentCount, rDevices, rWorkerStats,
                   rWorkChan, rWorkClosed, rpidx, rwpc, rwip, rwg, rOverlap>>
    /\ reuseOnly

\* producer: workChan <- ip; atomic.AddInt32(&s.sentCount, 1)
ReProducerSend(c) ==
    /\ rppc[c] = "run" /\ rpidx[c] <= Len(rips[c])
    /\ rWorkChan' = [rWorkChan EXCEPT ![c] = Append(@, rips[c][rpidx[c]])]
    /\ rSentCount' = rSentCount + 1
    /\ rpidx' = [rpidx EXCEPT ![c] = @ + 1]
    /\ UNCHANGED <<rcpc, rn, rips, ri, rTotalIPs, rScannedCount, rDevices, rWorkerStats,
                   rWorkClosed, rppc, rwpc, rwip, rwg, rccpc, rOverlap>>
    /\ reuseOnly

\* producer, after the loop: close(workChan)
ReProducerClose(c) ==
    /\ rppc[c] = "run" /\ rpidx[c] > Len(rips[c])
    /\ rWorkClosed' = [rWorkClosed EXCEPT ![c] = TRUE]
    /\ rppc' = [rppc EXCEPT ![c] = "done"]
    /\ UNCHANGED <<rcpc, rn, rips, ri, rTotalIPs, rScannedCount, rSentCount, rDevices,
                   rWorkerStats, rWorkChan, rpidx, rwpc, rwip, rwg, rccpc, rOverlap>>
    /\ reuseOnly

\* worker: for ip := range workChan receives an IP; IsReachable(ipStr)
ReWorkerDequeue(c, w) ==
    /\ rwpc[c][w] = "range" /\ rWorkChan[c] # <<>>
    /\ rwip' = [rwip EXCEPT ![c][w] = Head(rWorkChan[c])]
    /\ rWorkChan' = [rWorkChan EXCEPT ![c] = Tail(@)]
    /\ rwpc' = [rwpc EXCEPT ![c][w] = "store"]
    /\ UNCHANGED <<rcpc, rn, rips, ri, rTotalIPs, rScannedCount, rSentCount, rDevices,
                   rWorkerStats, rWorkClosed, rpidx, rppc, rwg, rccpc, rOverlap>>
    /\ reuseOnly

\* worker: the range loop ends on the closed, empty channel
ReWorkerRangeEnd(c, w) ==
    /\ rwpc[c][w] = "range" /\ rWorkChan[c] = <<>> /\ rWorkClosed[c]
    /\ rwpc' = [rwpc EXCEPT ![c][w] = "exit"]
    /\ UNCHANGED <<rcpc, rn, rips, ri, rTotalIPs, rScannedCount, rSentCount, rDevices,
                   rWorkerStats, rWorkChan, rWorkClosed, rpidx, rppc, rwip, rwg, rccpc, rOverlap>>
    /\ reuseOnly

\* worker: s.devices[ipStr] = device (Up or Down alike)
ReWorkerStore(c, w) ==
    /\ rwpc[c][w] = "store"
    /\ rDevices' = MapPut(rDevices, rwip[c][w], c)
    /\ rwpc' = [rwpc EXCEPT ![c][w] = "count"]
    /\ UNCHANGED <<rcpc, rn, rips, ri, rTotalIPs, rScannedCount, rSentCount, rWorkerStats,
                   rWorkChan, rWorkClosed, rpidx, rppc, rwip, rwg, rccpc, rOverlap>>
    /\ reuseOnly

\* worker: atomic.AddInt32(&s.scannedCount, 1)
ReWorkerCount(c, w) ==
    /\ rwpc[c][w] = "count"
    /\ rScannedCount' = rScannedCount + 1
    /\ rwpc' = [rwpc EXCEPT ![c][w] = "range"]
    /\ rwip' = [rwip EXCEPT ![c][w] = NoIP]
    /\ UNCHANGED <<rcpc, rn, rips, ri, rTotalIPs, rSentCount, rDevices, rWorkerStats,
                   rWorkChan, rWorkClosed, rpidx, rppc, rwg, rccpc, rOverlap>>
    /\ reuseOnly

\* worker, deferred: delete(s.workerStats, id); wg.Done()
ReWorkerExit(c, w) ==
    /\ rwpc[c][w] = "exit"
    /\ rWorkerStats' = MapDelete(rWorkerStats, w)
    /\ rwg' = [rwg EXCEPT ![c] = @ - 1]
    /\ rwpc' = [rwpc EXCEPT ![c][w] = "returned"]
    /\ UNCHANGED <<rcpc, rn, rips, ri, rTotalIPs, rScannedCount, rSentCount, rDevices,
                   rWorkChan, rWorkClosed, rpidx, rppc, rwip, rccpc, rOverlap>>
    /\ reuseOnly

\* completion goroutine: wg.Wait() returns; the drain credit
ReCompletionCredit(c) ==
    /\ rccpc[c] = "wait" /\ rwg[c] = 0
    /\ rScannedCount' = Credit(rSentCount, rScannedCount)
    /\ rccpc' = [rccpc EXCEPT ![c] = "send"]
    /\ UNCHANGED <<rcpc, rn, rips, ri, rTotalIPs, rSentCount, rDevices, rWorkerStats,
                   rWorkChan, rWorkClosed, rpidx, rppc, rwpc, rwip, rwg, rOverlap>>
    /\ reuseOnly

\* completion goroutine: s.doneChan <- true meets a receiver
ReCompletionSendDone(c) ==
    /\ rccpc[c] = "send"
    /\ rccpc' = [rccpc EXCEPT ![c] = "done"]
    /\ UNCHANGED <<rcpc, rn, rips, ri, rTotalIPs, rScannedCount, rSentCount, rDevices,
                   rWorkerStats, rWorkChan, rWorkClosed, rpidx, rppc, rwpc, rwip, rwg, rOverlap>>
    /\ reuseOnly

ReuseNext ==
    \/ \E c \in CallIds, cidr \in CIDRInputs, n \in 1..MaxWorkers : ReScanNetwork(c, cidr, n)
    \/ \E c \in CallIds : ReStoreCounters(c)
    \/ \E c \in CallIds : ReResetDevices(c)
    \/ \E c \in CallIds : ReSpawnWorker(c)
    \/ \E c \in CallIds : ReLaunch(c)
    \/ \E c \in CallIds : ReProducerSend(c)
    \/ \E c \in CallIds : ReProducerClose(c)
    \/ \E c \in CallIds, w \in WorkerIds : ReWorkerDequeue(c, w)
    \/ \E c \in CallIds, w \in WorkerIds : ReWorkerRangeEnd(c, w)
    \/ \E c \in CallIds, w \in WorkerIds : ReWorkerStore(c, w)
    \/ \E c \in CallIds, w \in WorkerIds : ReWorkerCount(c, w)
    \/ \E c \in CallIds, w \in WorkerIds : ReWorkerExit(c, w)
    \/ \E c \in CallIds : ReCompletionCredit(c)
    \/ \E c \in CallIds : ReCompletionSendDone(c)

ReuseSpec == Init /\ [][ReuseNext]_vars

\* GetWorkerStats, taken as one snapshot of the maps and the three counters: the
\* synthesised entry when no worker is registered and devices exist, otherwise a
\* copy of each worker's status with the global counts
GetWorkerStats ==
    IF DOMAIN workerStats = {}
    THEN IF Cardinality(DOMAIN devices) > 0
         THEN [id \in {0} |->
                  [State |-> "completed", CurrentIP |-> "",
                   IPsFound |-> Cardinality(DOMAIN devices),
                   IPsScanned |-> totalIPs, TotalIPs |-> totalIPs, SentCount |-> totalIPs]]
         ELSE EmptyMap
    ELSE [id \in DOMAIN workerStats |->
             [workerStats[id] EXCEPT !.IPsScanned = scannedCount, !.TotalIPs = totalIPs,
                                     !.SentCount = sentCount]]


\* ------------------------------------ parsers and NormalizeMACAddress alone
\* longest string given to NormalizeMACAddress
MaxMacLen == 4
\* most records in a name table given to getNetBIOSName
NbMaxRecords == 2
\* Largest length of a name handed to cleanHostname on its own.
MaxCleanLen == 4

\* the characters of the strings given to NormalizeMACAddress
MacChars == {"0", "a", "F", ":", "-", "."}
NormInputs == UNION {[1..k -> MacChars] : k \in 0..MaxMacLen}

\* "MACHINE", "WORKGROUP", "PC.LAN", "PRN", ".."
NameMachine == <<77, 65, 67, 72, 73, 78, 69>>
NameWorkgroup == <<87, 79, 82, 75, 71, 82, 79, 85, 80>>
NamePcLan == <<80, 67, 46, 76, 65, 78>>
NamePrn == <<80, 82, 78>>
NameDots == <<46, 46>>

\* one 18-byte record: the name padded with spaces to 15 bytes, the type, the flags
TableRecord(name, nameType, flags) ==
    name \o [i \in 1..(15 - Len(name)) |-> 32] \o <<nameType, flags \div 256, flags % 256>>

\* unique and registered; group; unique with an empty name; unique, not 0x0400;
\* a type other than 0x00 and 0x20; unique with a name that cleans to nothing
NbRecords ==
    {TableRecord(NameMachine, 32, 1024), TableRecord(NameWorkgroup, 0, 33792),
     TableRecord(<<>>, 0, 1024), TableRecord(NamePcLan, 0, 17408),
     TableRecord(NamePrn, 3, 1024), TableRecord(NameDots, 32, 0)}

RECURSIVE Flatten(_)
Flatten(seqs) == IF seqs = <<>> THEN <<>> ELSE Head(seqs) \o Flatten(Tail(seqs))

\* a whole NBNS status response: 56 bytes up to the name count, the count, the table
NbResponse(numNames, table) == [i \in 1..56 |-> 0] \o <<numNames>> \o Flatten(table)

\* what conn.Read may store: a response, whole or cut short, whose count byte
\* need not agree with its table
NbInputs ==
    {SubSeq(NbResponse(numNames, table), 1, n) :
        numNames \in 0..(NbMaxRecords + 1),
        table \in [1..NbMaxRecords -> NbRecords],
        n \in {0, 56} \cup {57 + (18 * k) : k \in 0..NbMaxRecords}
                      \cup {56 + (18 * k) : k \in 1..NbMaxRecords}}

\* an X.224 connection confirm with a negotiation response, and one byte after it
RdpResponse(b0, b1, b5, p) ==
    <<b0, b1, 0, 19, 14, b5, 0, 0, 18, 52, 0, 2, 0, 8, 0, p[1], p[2], p[3], p[4], 0>>

RdpInputs ==
    {SubSeq(RdpResponse(b0, b1, b5, p), 1, n) :
        b0 \in {3, 0}, b1 \in {0, 3}, b5 \in {208, 224},
        p \in {0, 1, 2, 3, 4, 8} \X {0, 2} \X {0} \X {0, 1},
        n \in {0, 18, 19, 20}}

\* the names handed to cleanHostname on its own: every string of at most
\* MaxCleanLen bytes over a letter, a digit, '-', '.', ':', a space and a byte
\* above 127, and "MyHost.example.com:445"
CleanBytes == {77, 121, 52, 45, 46, 58, 32, 233}
MyHostExample == <<77, 121, 72, 111, 115, 116, 46, 101, 120, 97, 109, 112, 108, 101, 46, 99,
                   111, 109, 58, 52, 52, 53>>
CleanInputs == {MyHostExample} \cup UNION {[1..k -> CleanBytes] : k \in 0..MaxCleanLen}

\* one call of NormalizeMACAddress or of cleanHostname (and one more on its
\* result), of getNetBIOSName or of getRDPHostname, on inputs drawn here
ParseInit ==
    /\ EngineInit /\ WebInit /\ FuncIdle /\ ReuseInit /\ HostIdle /\ ReachIdle
    /\ parseTask \in {"norm", "nbns", "rdp", "clean"}
    /\ clIn \in (IF parseTask = "clean" THEN CleanInputs ELSE {<<>>})
    /\ clOut = <<>> /\ clAgain = <<>>
    /\ parsePc = "call"
    /\ normIn \in (IF parseTask = "norm" THEN NormInputs ELSE {<<>>})
    /\ normOut = <<>> /\ normAgain = <<>>
    /\ nbResp \in (IF parseTask = "nbns" THEN NbInputs ELSE {<<>>})
    /\ nbRet = NoParse
    /\ rdpResp \in (IF parseTask = "rdp" THEN RdpInputs ELSE {<<>>})
    /\ rdpDials = 0 /\ rdpRet = ""

parseOnly == UNCHANGED <<engineVars, webVars, funcVars, reuseVars, hostVars, cleanVars, reachVars>>

\* y := NormalizeMACAddress(x)
NormCall ==
    /\ parseTask = "norm" /\ parsePc = "call"
    /\ normOut' = NormalizeMACAddress(normIn)
    /\ parsePc' = "once"
    /\ UNCHANGED <<parseTask, normIn, normAgain, nbResp, nbRet, rdpResp, rdpDials, rdpRet>>
    /\ parseOnly

\* z := NormalizeMACAddress(y)
NormAgain ==
    /\ parseTask = "norm" /\ parsePc = "once"
    /\ normAgain' = NormalizeMACAddress(normOut)
    /\ parsePc' = "done"
    /\ UNCHANGED <<parseTask, normIn, normOut, nbResp, nbRet, rdpResp, rdpDials, rdpRet>>
    /\ parseOnly

\* getNetBIOSName once conn.Read has returned n bytes
NbnsParse ==
    /\ parseTask = "nbns" /\ parsePc = "call"
    /\ nbRet' = ParseNetBIOS(nbResp)
    /\ parsePc' = "done"
    /\ UNCHANGED <<parseTask, normIn, normOut, normAgain, nbResp, rdpResp, rdpDials, rdpRet>>
    /\ parseOnly

\* getRDPHostname steps 2 to 4: dial, send the negotiation request, read the response
RdpExchange ==
    /\ parseTask = "rdp" /\ parsePc = "call"
    /\ rdpDials' = rdpDials + 1
    /\ parsePc' = "parse"
    /\ UNCHANGED <<parseTask, normIn, normOut, normAgain, nbResp, nbRet, rdpResp, rdpRet>>
    /\ parseOnly

\* step 5: the response is rejected, or its selected protocol decides the branch
RdpParse ==
    /\ parseTask = "rdp" /\ parsePc = "parse"
    /\ rdpRet' = ParseRDP(rdpResp)
    /\ parsePc' = IF ParseRDP(rdpResp) = "tls" THEN "ssl" ELSE "done"
    /\ UNCHANGED <<parseTask, normIn, normOut, normAgain, nbResp, nbRet, rdpResp, rdpDials>>
    /\ parseOnly

\* the TLS branch: sslConn, err := net.DialTimeout(...)
RdpSSLDial ==
    /\ parseTask = "rdp" /\ parsePc = "ssl"
    /\ rdpDials' = rdpDials + 1
    /\ parsePc' = "done"
    /\ UNCHANGED <<parseTask, normIn, normOut, normAgain, nbResp, nbRet, rdpResp, rdpRet>>
    /\ parseOnly

\* y := cleanHostname(x)
CleanCall ==
    /\ parseTask = "clean" /\ parsePc = "call"
    /\ clOut' = cleanHostname(clIn)
    /\ parsePc' = "once"
    /\ UNCHANGED <<clIn, clAgain>>
    /\ UNCHANGED <<parseTask, normIn, normOut, normAgain, nbResp, nbRet, rdpResp, rdpDials, rdpRet>>
    /\ UNCHANGED <<engineVars, webVars, funcVars, reuseVars, hostVars, reachVars>>

\* z := cleanHostname(y)
CleanAgain ==
    /\ parseTask = "clean" /\ parsePc = "once"
    /\ clAgain' = cleanHostname(clOut)
    /\ parsePc' = "done"
    /\ UNCHANGED <<clIn, clOut>>
    /\ UNCHANGED <<parseTask, normIn, normOut, normAgain, nbResp, nbRet, rdpResp, rdpDials, rdpRet>>
    /\ UNCHANGED <<engineVars, webVars, funcVars, reuseVars, hostVars, reachVars>>

ParseNext ==
    \/ CleanCall
    \/ CleanAgain
    \/ NormCall
    \/ NormAgain
    \/ NbnsParse
    \/ RdpExchange
    \/ RdpParse
    \/ RdpSSLDial

ParseSpec == ParseInit /\ [][ParseNext]_vars

\* ------------------------- the workers of one scan, with hostname resolution
\* what IsReachable may report of a host that is up
HostPortSets == {{}, {445}, {548}, {3389}, {5353}, {3689}, {445, 548, 3389, 5353}}

\* "pc.lan." from net.LookupAddr; the banner "AFP (My Mac)"; the share
\* "\\nas_1\pub"; the certificate names "*.x" and "srv01.corp"; the mDNS host
\* "iMac.local." and the service instance "tv._airplay"
DnsAnswers == {<<>>, <<NamePcLan \o <<46>>>>}
AfpAnswers == {<<>>, <<65, 70, 80, 32, 40, 77, 121, 32, 77, 97, 99, 41, 10>>}
NbAnswers == {<<>>, NbResponse(1, <<TableRecord(NameMachine, 32, 1024)>>)}
SmbAnswers == {<<>>, <<(<<92, 92, 110, 97, 115, 95, 49, 92, 112, 117, 98>>)>>}
RdpAnswers == {<<>>, <<(<<42, 46, 120>>), (<<115, 114, 118, 48, 49, 46, 99, 111, 114, 112>>)>>}
BonjourEntries ==
    {[Host |-> <<>>, Name |-> <<>>],
     [Host |-> <<105, 77, 97, 99, 46, 108, 111, 99, 97, 108, 46>>, Name |-> <<>>],
     [Host |-> <<>>, Name |-> <<116, 118, 46, 95, 97, 105, 114, 112, 108, 97, 121>>]}

\* what the network answers to the methods of lines 264-299
HostAnswers ==
    [dns : DnsAnswers, afp : AfpAnswers, nb : NbAnswers, smb : SmbAnswers, rdp : RdpAnswers]

\* ScanNetwork has registered and started the workers, and the producer has sent
\* every IP and closed workChan
HostInit ==
    /\ EngineInit /\ WebInit /\ FuncIdle /\ ReuseInit /\ ParseIdle /\ CleanIdle /\ ReachIdle
    /\ hQueue = GetAllIPs(ParseCIDR([IP |-> BaseIP, Bits |-> 32 - HostBits]))
    /\ hpc = [w \in WorkerIds |-> "range"]
    /\ hip = [w \in WorkerIds |-> NoIP]
    /\ hDev = [w \in WorkerIds |-> NoHostDevice]
    /\ hgpc = [w \in WorkerIds |-> "none"]
    /\ hgName = [w \in WorkerIds |-> <<>>]
    /\ hQuery = {}
    /\ hMutex = "free"
    /\ hWorkerStats = WorkerIds
    /\ hDevices = EmptyMap
    /\ hResults = 0 /\ hScanned = 0
    /\ hrpc = "idle"
    /\ hTried = [w \in WorkerIds |-> <<>>]
    /\ hBy = [w \in WorkerIds |-> ""]
    /\ hClassified = [w \in WorkerIds |-> FALSE]
    /\ hWrites = EmptyMap /\ hCounted = EmptyMap

hostOnly == UNCHANGED <<engineVars, webVars, funcVars, reuseVars, parseVars, cleanVars, reachVars>>

\* for ip := range workChan
HDequeue(w) ==
    /\ hpc[w] = "range" /\ hQueue # <<>>
    /\ hip' = [hip EXCEPT ![w] = Head(hQueue)]
    /\ hQueue' = Tail(hQueue)
    /\ hpc' = [hpc EXCEPT ![w] = "probe"]
    /\ UNCHANGED <<hDev, hgpc, hgName, hQuery, hMutex, hWorkerStats, hDevices, hResults,
                   hScanned, hrpc, hTried, hBy, hClassified, hWrites, hCounted>>
    /\ hostOnly

\* the range loop ends on the closed channel: the deferred delete(s.workerStats, id)
\* under statsLock, and wg.Done()
HExit(w) ==
    /\ hpc[w] = "range" /\ hQueue = <<>>
    /\ hrpc = "idle"
    /\ hWorkerStats' = hWorkerStats \ {w}
    /\ hpc' = [hpc EXCEPT ![w] = "returned"]
    /\ UNCHANGED <<hQueue, hip, hDev, hgpc, hgName, hQuery, hMutex, hDevices, hResults,
                   hScanned, hrpc, hTried, hBy, hClassified, hWrites, hCounted>>
    /\ hostOnly

\* the "scanning" status under statsLock, IsReachable, and the new Device with its
\* type after the vendor and pre-sweep tests; up is FALSE for an unreachable host
HProbe(w, up, ports) ==
    /\ hpc[w] = "probe"
    /\ hrpc = "idle"
    /\ hDev' = [hDev EXCEPT ![w] =
                   IF up
                   THEN [IPAddress |-> hip[w], Status |-> "Up", OpenPorts |-> ports,
                         Hostname |-> <<>>,
                         DeviceType |-> IF VendorIsApple \/ PreSweepName # <<>>
                                        THEN "Apple" ELSE ""]
                   ELSE [IPAddress |-> hip[w], Status |-> "Down", OpenPorts |-> {},
                         Hostname |-> <<>>, DeviceType |-> ""]]
    /\ hpc' = [hpc EXCEPT ![w] = IF up THEN "resolve" ELSE "store"]
    /\ hTried' = [hTried EXCEPT ![w] = <<>>]
    /\ hBy' = [hBy EXCEPT ![w] = ""]
    /\ hClassified' = [hClassified EXCEPT ![w] = FALSE]
    /\ hgpc' = [hgpc EXCEPT ![w] = "none"]
    /\ hgName' = [hgName EXCEPT ![w] = <<>>]
    /\ UNCHANGED <<hQueue, hip, hQuery, hMutex, hWorkerStats, hDevices, hResults, hScanned,
                   hrpc, hWrites, hCounted>>
    /\ hostOnly

\* reverse DNS, then AFP, NetBIOS, SMB and RDP as far as they are tried
HResolve(w, a) ==
    /\ hpc[w] = "resolve"
    /\ hDev' = [hDev EXCEPT ![w] = ResolveHostname(hDev[w], a).device]
    /\ hTried' = [hTried EXCEPT ![w] = ResolveHostname(hDev[w], a).tried]
    /\ hBy' = [hBy EXCEPT ![w] = ResolveHostname(hDev[w], a).by]
    /\ hpc' = [hpc EXCEPT ![w] = "spawn"]
    /\ UNCHANGED <<hQueue, hip, hgpc, hgName, hQuery, hMutex, hWorkerStats, hDevices,
                   hResults, hScanned, hrpc, hClassified, hWrites, hCounted>>
    /\ hostOnly

\* line 302: mdnsWait.Add(1) and the go statement, when the condition holds
HSpawn(w) ==
    /\ hpc[w] = "spawn"
    /\ IF MdnsTrigger(hDev[w])
       THEN /\ hgpc' = [hgpc EXCEPT ![w] = "resolve"]
            /\ hTried' = [hTried EXCEPT ![w] = Append(@, "mdns")]
       ELSE UNCHANGED <<hgpc, hTried>>
    /\ hpc' = [hpc EXCEPT ![w] = "check"]
    /\ UNCHANGED <<hQueue, hip, hDev, hgName, hQuery, hMutex, hWorkerStats, hDevices,
                   hResults, hScanned, hrpc, hBy, hClassified, hWrites, hCounted>>
    /\ hostOnly

\* the port check of lines 334-343, which holds no lock
HPortCheck(w) ==
    /\ hpc[w] = "check"
    /\ hDev' = [hDev EXCEPT ![w] = PortCheck(hDev[w])]
    /\ hClassified' = [hClassified EXCEPT ![w] = TRUE]
    /\ hpc' = [hpc EXCEPT ![w] = "wait"]
    /\ UNCHANGED <<hQueue, hip, hgpc, hgName, hQuery, hMutex, hWorkerStats, hDevices,
                   hResults, hScanned, hrpc, hTried, hBy, hWrites, hCounted>>
    /\ hostOnly

\* the goroutine's getBonjourHostname returns: on a matching entry, or after its
\* last service type; the query goroutine it started last may still be in mdns.Query
MdnsResolve(w, entry, querying) ==
    /\ hgpc[w] = "resolve"
    /\ hgName' = [hgName EXCEPT ![w] = getBonjourHostname(entry)]
    /\ hQuery' = IF querying THEN hQuery \cup {hip[w]} ELSE hQuery
    /\ hgpc' = [hgpc EXCEPT ![w] = IF getBonjourHostname(entry) # <<>> THEN "write" ELSE "done"]
    /\ UNCHANGED <<hQueue, hpc, hip, hDev, hMutex, hWorkerStats, hDevices, hResults,
                   hScanned, hrpc, hTried, hBy, hClassified, hWrites, hCounted>>
    /\ hostOnly

\* the goroutine's writes to the worker's device under deviceMutex, and its
\* deferred mdnsWait.Done()
MdnsWrite(w) ==
    /\ hgpc[w] = "write"
    /\ hMutex = "free"
    /\ hDev' = [hDev EXCEPT ![w] =
                   [@ EXCEPT !.Hostname = <<hgName[w]>>,
                             !.DeviceType = IF @ = "" THEN "Possible Apple" ELSE @]]
    /\ hBy' = [hBy EXCEPT ![w] = "mdns"]
    /\ hgpc' = [hgpc EXCEPT ![w] = "done"]
    /\ UNCHANGED <<hQueue, hpc, hip, hgName, hQuery, hMutex, hWorkerStats, hDevices,
                   hResults, hScanned, hrpc, hTried, hClassified, hWrites, hCounted>>
    /\ hostOnly

\* mdns.Query returns in the query goroutine
QueryEnd(ip) ==
    /\ ip \in hQuery
    /\ hQuery' = hQuery \ {ip}
    /\ UNCHANGED <<hQueue, hpc, hip, hDev, hgpc, hgName, hMutex, hWorkerStats, hDevices,
                   hResults, hScanned, hrpc, hTried, hBy, hClassified, hWrites, hCounted>>
    /\ hostOnly

\* mutant of HWait: the worker goes on without mdnsWait.Wait()
HWaitNoWait(w) ==
    /\ hpc[w] = "wait"
    /\ hrpc = "idle"
    /\ hpc' = [hpc EXCEPT ![w] = "store"]
    /\ UNCHANGED <<hQueue, hip, hDev, hgpc, hgName, hQuery, hMutex, hWorkerStats, hDevices,
                   hResults, hScanned, hrpc, hTried, hBy, hClassified, hWrites, hCounted>>
    /\ hostOnly

\* mdnsWait.Wait(), then IPsFound++ under statsLock
HWait(w) ==
    /\ hpc[w] = "wait"
    /\ hgpc[w] \in {"none", "done"}
    /\ hrpc = "idle"
    /\ hpc' = [hpc EXCEPT ![w] = "store"]
    /\ UNCHANGED <<hQueue, hip, hDev, hgpc, hgName, hQuery, hMutex, hWorkerStats, hDevices,
                   hResults, hScanned, hrpc, hTried, hBy, hClassified, hWrites, hCounted>>
    /\ hostOnly

\* s.deviceMutex.Lock(), and the map write begins
HStoreBegin(w) ==
    /\ hpc[w] = "store"
    /\ hMutex = "free"
    /\ hMutex' = "worker"
    /\ hpc' = [hpc EXCEPT ![w] = "writing"]
    /\ UNCHANGED <<hQueue, hip, hDev, hgpc, hgName, hQuery, hWorkerStats, hDevices,
                   hResults, hScanned, hrpc, hTried, hBy, hClassified, hWrites, hCounted>>
    /\ hostOnly

\* s.devices[ipStr] = device is done; Unlock; for an Up device the send on
\* resultsChan or its default case
HStoreEnd(w) ==
    /\ hpc[w] = "writing"
    /\ hDevices' = MapPut(hDevices, hip[w], hDev[w])
    /\ hWrites' = MapPut(hWrites, hip[w], CountOf(hWrites, hip[w]) + 1)
    /\ hMutex' = "free"
    /\ hResults' = IF hDev[w].Status = "Up" /\ hResults < ResultsCap
                   THEN hResults + 1 ELSE hResults
    /\ hpc' = [hpc EXCEPT ![w] = "count"]
    /\ UNCHANGED <<hQueue, hip, hDev, hgpc, hgName, hQuery, hWorkerStats, hScanned, hrpc,
                   hTried, hBy, hClassified, hCounted>>
    /\ hostOnly

\* atomic.AddInt32(&s.scannedCount, 1)
HCount(w) ==
    /\ hpc[w] = "count"
    /\ hScanned' = hScanned + 1
    /\ hCounted' = MapPut(hCounted, hip[w], CountOf(hCounted, hip[w]) + 1)
    /\ hpc' = [hpc EXCEPT ![w] = "stats"]
    /\ UNCHANGED <<hQueue, hip, hDev, hgpc, hgName, hQuery, hMutex, hWorkerStats, hDevices,
                   hResults, hrpc, hTried, hBy, hClassified, hWrites>>
    /\ hostOnly

\* the counters copied into the worker's status under statsLock
HStats(w) ==
    /\ hpc[w] = "stats"
    /\ hrpc = "idle"
    /\ hpc' = [hpc EXCEPT ![w] = "range"]
    /\ UNCHANGED <<hQueue, hip, hDev, hgpc, hgName, hQuery, hMutex, hWorkerStats, hDevices,
                   hResults, hScanned, hrpc, hTried, hBy, hClassified, hWrites, hCounted>>
    /\ hostOnly

\* GetWorkerStats: s.statsLock.RLock() and the loads of the counters
StatsRLock ==
    /\ hrpc = "idle"
    /\ hrpc' = "locked"
    /\ UNCHANGED <<hQueue, hpc, hip, hDev, hgpc, hgName, hQuery, hMutex, hWorkerStats,
                   hDevices, hResults, hScanned, hTried, hBy, hClassified, hWrites, hCounted>>
    /\ hostOnly

\* len(s.workerStats) == 0 sends it to the device map; otherwise it copies the
\* statuses and returns, releasing statsLock
StatsBranch ==
    /\ hrpc = "locked"
    /\ hrpc' = IF hWorkerStats = {} THEN "devices" ELSE "idle"
    /\ UNCHANGED <<hQueue, hpc, hip, hDev, hgpc, hgName, hQuery, hMutex, hWorkerStats,
                   hDevices, hResults, hScanned, hTried, hBy, hClassified, hWrites, hCounted>>
    /\ hostOnly

\* len(s.devices), read with statsLock held and deviceMutex not taken; return
StatsLenDevices ==
    /\ hrpc = "devices"
    /\ hrpc' = "idle"
    /\ UNCHANGED <<hQueue, hpc, hip, hDev, hgpc, hgName, hQuery, hMutex, hWorkerStats,
                   hDevices, hResults, hScanned, hTried, hBy, hClassified, hWrites, hCounted>>
    /\ hostOnly

HostNext ==
    \/ \E w \in WorkerIds :
          \/ HDequeue(w)
          \/ HExit(w)
          \/ HProbe(w, FALSE, {})
          \/ \E ports \in HostPortSets : HProbe(w, TRUE, ports)
          \/ \E a \in HostAnswers : HResolve(w, a)
          \/ HSpawn(w)
          \/ HPortCheck(w)
          \/ \E entry \in BonjourEntries, querying \in BOOLEAN : MdnsResolve(w, entry, querying)
          \/ MdnsWrite(w)
          \/ HWait(w)
          \/ HStoreBegin(w)
          \/ HStoreEnd(w)
          \/ HCount(w)
          \/ HStats(w)
    \/ \E ip \in hQuery : QueryEnd(ip)
    \/ StatsRLock
    \/ StatsBranch
    \/ StatsLenDevices

HostSpec == HostInit /\ [][HostNext]_vars



\* the TUI's loop over a snapshot: for _, stat := range stats { totalScanned +=
\* stat.IPsScanned }
RECURSIVE SumIPsScanned(_, _)
SumIPsScanned(stats, ids) ==
    IF ids = {} THEN 0
    ELSE LET id == CHOOSE x \in ids : TRUE
         IN stats[id].IPsScanned + SumIPsScanned(stats, ids \ {id})

\* the scanned count the TUI derives from GetWorkerStats' snapshot
TotalScanned(stats) == SumIPsScanned(stats, DOMAIN stats)

\* ------------------ one call of IsReachable, with all of its probe goroutines
\* The goroutines are followed by count: how many are running, how many ports are
\* in the results channel, how many the collector has appended.
ProbeCount == Len(AllProbePorts)

ReachInit ==
    /\ EngineInit /\ WebInit /\ FuncIdle /\ ReuseInit /\ ParseIdle /\ HostIdle /\ CleanIdle
    /\ irPc = "call"
    /\ irDialOk = 0 /\ irDialFail = 0 /\ irResults = 0
    /\ irClosed = FALSE /\ irOpenPorts = 0 /\ irWasFull = FALSE

reachOnly == UNCHANGED <<engineVars, webVars, funcVars, reuseVars, parseVars, hostVars, cleanVars>>

\* IsReachable up to "Collect results": results := make(chan int, len(commonPorts)),
\* one goroutine per port of commonPorts and of macPorts, of which ok will find
\* their port open, and the goroutine that waits and closes
ReachStart(ok) ==
    /\ irPc = "call"
    /\ irDialOk' = ok
    /\ irDialFail' = ProbeCount - ok
    /\ irPc' = "range"
    /\ UNCHANGED <<irResults, irClosed, irOpenPorts, irWasFull>>
    /\ reachOnly

\* a probe goroutine whose dial succeeded: results <- p (when the channel has
\* room), isReachable = true, wg.Done()
ReachSend ==
    /\ irPc = "range" /\ irDialOk > 0
    /\ irResults < ProbeChanCap
    /\ irResults' = irResults + 1
    /\ irDialOk' = irDialOk - 1
    /\ irWasFull' = (irWasFull \/ (irResults + 1 = ProbeChanCap /\ irDialOk > 1))
    /\ UNCHANGED <<irPc, irDialFail, irClosed, irOpenPorts>>
    /\ reachOnly

\* a probe goroutine whose dial failed or timed out: wg.Done()
ReachFail ==
    /\ irPc = "range" /\ irDialFail > 0
    /\ irDialFail' = irDialFail - 1
    /\ UNCHANGED <<irPc, irDialOk, irResults, irClosed, irOpenPorts, irWasFull>>
    /\ reachOnly

\* go func() { wg.Wait(); close(results) }()
ReachClose ==
    /\ irPc = "range" /\ ~irClosed
    /\ irDialOk = 0 /\ irDialFail = 0
    /\ irClosed' = TRUE
    /\ UNCHANGED <<irPc, irDialOk, irDialFail, irResults, irOpenPorts, irWasFull>>
    /\ reachOnly

\* mutant of ReachCollect: the collector reads only once results is closed
ReachCollectAfterClose ==
    /\ irPc = "range" /\ irResults > 0
    /\ irClosed
    /\ irResults' = irResults - 1
    /\ irOpenPorts' = irOpenPorts + 1
    /\ UNCHANGED <<irPc, irDialOk, irDialFail, irClosed, irWasFull>>
    /\ reachOnly

\* for port := range results { openPorts = append(openPorts, port) }
ReachCollect ==
    /\ irPc = "range" /\ irResults > 0
    /\ irResults' = irResults - 1
    /\ irOpenPorts' = irOpenPorts + 1
    /\ UNCHANGED <<irPc, irDialOk, irDialFail, irClosed, irWasFull>>
    /\ reachOnly

\* the range loop ends on the closed, empty channel: sort.Ints(openPorts); return
ReachReturn ==
    /\ irPc = "range"
    /\ irResults = 0 /\ irClosed
    /\ irPc' = "returned"
    /\ UNCHANGED <<irDialOk, irDialFail, irResults, irClosed, irOpenPorts, irWasFull>>
    /\ reachOnly

ReachNext ==
    \/ \E ok \in 0..ProbeCount : ReachStart(ok)
    \/ ReachSend
    \/ ReachFail
    \/ ReachClose
    \/ ReachCollect
    \/ ReachReturn

ReachSpec == ReachInit /\ [][ReachNext]_vars

\* every dial returns (each has a timeout) and every goroutine is scheduled
FairReachSpec ==
    /\ ReachSpec
    /\ WF_vars(ReachSend) /\ WF_vars(ReachFail)
    /\ WF_vars(ReachClose) /\ WF_vars(ReachCollect) /\ WF_vars(ReachReturn)

\* weak fairness for every goroutine of the scan; CompletionSendDone needs a
\* consumer receiving on doneChan, which FairSpec takes to be there
FairSpec ==
    /\ Spec
    /\ WF_vars(ProducerStep)
    /\ \A w \in WorkerIds : WF_vars(WorkerStep(w))
    /\ WF_vars(CompletionStep)

\* ------------------------------------------------------------------ claims
Range(seq) == {seq[i] : i \in 1..Len(seq)}
IPsOf(devs) == [i \in 1..Len(devs) |-> devs[i].IPAddress]
NoDuplicates(seq) == \A i, j \in 1..Len(seq) : seq[i] = seq[j] => i = j
\* the IPs stored as Up whose worker has not yet reached past its send
PendingSend == {wip[w] : w \in {x \in WorkerIds : wpc[x] = "send"}}
Spawned == 0..(workers - 1)

\* C1: once done has been signalled, scannedCount = totalIPs = the number of
\* device-map entries, and every address of GetAllIPs has a device record,
\* in every run, runs with Stop included.
C1_DoneTotals ==
    doneSignalled =>
        /\ scannedCount = totalIPs
        /\ totalIPs = Cardinality(DOMAIN devices)
        /\ \A i \in 1..Len(ips) : ips[i] \in DOMAIN devices

\* C2: if Stop was called while the producer was still enqueuing, then after
\* the drain step scannedCount = totalIPs and every IP no worker probed is in
\* the device map as Down.
C2_StopDrain ==
    (stoppedEarly /\ cpc \in {"send", "done"}) =>
        /\ scannedCount = totalIPs
        /\ \A i \in 1..Len(ips) :
              ips[i] \notin Range(counted) =>
                  (ips[i] \in DOMAIN devices /\ devices[ips[i]].Status = "Down")

\* C3: a second call of Stop is a no-op: it does not panic and leaves the
\* scan state as it was after the first Stop.
C3_SecondStopNoOp == [][(stopClosed /\ Stop) => (~panicked' /\ UNCHANGED vars)]_vars

\* C4: sentCount >= scannedCount in every reachable state of a scan.
C4_SentAtLeastScanned == sentCount >= scannedCount


\* C5 (as claimed): every Up device is on the results stream exactly once, and
\* the stream's order is the order of the writes to the device map.
C5_ExactlyOnceInMapOrder ==
    IPsOf(streamed) = SelectSeq(upOrder, LAMBDA ip : ip \notin PendingSend)

\* C5 (amended): every Up device is placed on the results stream at most
\* once, after its map write: exactly once when the stream is not full at its
\* worker's send, and not at all (dropped) only when the stream is full; the
\* stream hands devices on in the order of the sends.
C5_AtMostOnceInSendOrder ==
    /\ [](/\ NoDuplicates(IPsOf(streamed))
          /\ Range(IPsOf(streamed)) \subseteq Range(upOrder)
          /\ \A ip \in Range(upOrder) \ PendingSend :
                (ip \in Range(IPsOf(streamed))) # (ip \in dropped)
          /\ Len(resultsChan) <= Len(streamed)
          /\ resultsChan = SubSeq(streamed, Len(streamed) - Len(resultsChan) + 1, Len(streamed)))
    /\ [][dropped' # dropped => Len(resultsChan) >= ResultsCap]_vars

\* two devices were streamed in an order that is not the order of their map writes
C5_Witness == Len(streamed) = 2 /\ PendingSend = {} /\ IPsOf(streamed) # upOrder

\* C6: every device ever placed on the results stream has status Up and is
\* stored in the device map under its IP with the same contents; no Down
\* device is on the stream.
C6_StreamedIsUpAndStored ==
    \A i \in 1..Len(streamed) :
        /\ streamed[i].Status = "Up"
        /\ streamed[i].IPAddress \in DOMAIN devices
        /\ devices[streamed[i].IPAddress] = streamed[i]

\* a device with an open port was streamed while the map also holds a Down device
C6_Witness ==
    /\ \E i \in 1..Len(streamed) : streamed[i].OpenPorts # <<>>
    /\ \E ip \in DOMAIN devices : devices[ip].Status = "Down"

\* C7: a worker that finishes an Up host while the results channel is full
\* does not block; the device is not enqueued, it is in the device map, and
\* scannedCount is incremented for that IP.
C7_FullStreamDropsOnly ==
    /\ Len(resultsChan) <= ResultsCap
    /\ \A w \in WorkerIds : (wpc[w] = "send" /\ ~panicked) => ENABLED WorkerSend(w)
    /\ \A ip \in dropped :
          /\ ip \notin Range(IPsOf(streamed))
          /\ ip \in DOMAIN devices /\ devices[ip].Status = "Up"
          /\ \/ ip \in Range(counted)
             \/ \E w \in WorkerIds : wip[w] = ip /\ wpc[w] = "count"

\* a device was dropped from a full stream and its IP was counted
C7_Witness ==
    \E ip \in dropped : ip \in Range(counted) /\ Len(resultsChan) = ResultsCap

\* C10: done is never signalled while a worker is running or has an entry in
\* the worker-stats map: at done the map is empty, and a worker's entry
\* exists from its spawn until the worker returns.
C10_DoneAfterWorkers ==
    /\ (cpc \in {"send", "done"} \/ doneSignalled) =>
          /\ DOMAIN workerStats = {}
          /\ \A w \in Spawned : wpc[w] = "returned"
    /\ scanState = "running" =>
          \A w \in Spawned : (w \in DOMAIN workerStats) <=> (wpc[w] \notin {"wgdone", "returned"})

\* done was signalled after two workers scanned a block of two hosts
C10_Witness == doneSignalled /\ workers = 2 /\ Len(counted) = 2


\* after Stop a worker that holds a freshly dequeued IP returns instead of probing it
ReturnsAtNextDequeue ==
    \A w \in WorkerIds :
        (stopClosed /\ wpc[w] = "select" /\ wpc'[w] # "select") => wpc'[w] = "exit"

\* C9: every scan for which ScanNetwork returned nil eventually signals done,
\* whether or not Stop is called (probes terminate, the scheduler is fair, a
\* consumer receives on the done channel); after Stop every worker returns
\* at its next dequeue.
C9_EventuallyDone ==
    /\ (scanState = "running") ~> doneSignalled
    /\ [][ReturnsAtNextDequeue]_vars

\* what holds of the code: a scan signals done unless the process panics
DoneUnlessPanicked ==
    /\ (scanState = "running") ~> (doneSignalled \/ panicked)
    /\ [][ReturnsAtNextDequeue]_vars


\* a ScanNetwork run whose workers are alive and whose stop signal is not set
RunningUnstopped == \E j \in ScanIds : engRuns[j] > 0 /\ ~engStop[j]

\* C8: a request to start a scan while a scan is still running is rejected with
\* an error (it starts no workers, resets no counters, replaces no device map).
C8_StartRejectedWhileRunning ==
    [][RunningUnstopped => ~(startPc = "idle" /\ startPc' = "create")]_vars


\* C11: when a scan has completed (the done signal was emitted) the results
\* channel is closed, so that a consumer reading it after completion sees it closed.
C11_CompletedClosesResults == doneSignalled => resultsClosed

\* every address a scan of the model's blocks can enumerate
HostIPs == UNION {Range(GetAllIPs(ParseCIDR(c))) : c \in {x \in CIDRInputs : ParseCIDR(x).ok}}

\* a worker between the start of its probe and the write of the device
InFlight == {"probe", "found", "storeUp", "storeDown"}

\* an IP received while the cancellation signal was set is never probed, and
\* the cancellation signal does not make a worker abandon a probe in flight
NoProbeAfterStop ==
    /\ [](lateDequeued \cap probed = {})
    /\ [][\A w \in WorkerIds :
            (stopClosed /\ wpc[w] \in InFlight /\ wpc'[w] # wpc[w])
                => wpc'[w] \in InFlight \cup {"send", "count"}]_vars

\* C12: after Stop no worker starts probing a new IP (an IP dequeued after the
\* cancellation signal is set is not probed), while a probe in flight when
\* Stop is called runs to completion and its device is recorded.
C12_StopSparesInFlight ==
    /\ NoProbeAfterStop
    /\ \A ip \in HostIPs :
          (stopClosed /\ \E w \in WorkerIds : wpc[w] \in InFlight /\ wip[w] = ip)
              ~> (ip \in DOMAIN devices)

\* what holds of the code: the probe in flight is recorded unless the process panics
InFlightRecordedUnlessPanicked ==
    /\ NoProbeAfterStop
    /\ \A ip \in HostIPs :
          (stopClosed /\ \E w \in WorkerIds : wpc[w] \in InFlight /\ wip[w] = ip)
              ~> (ip \in DOMAIN devices \/ panicked)

\* during a scan every IP is received by one worker and its map entry is written once
HandedAndWrittenOnce ==
    /\ \A ip \in DOMAIN handed : handed[ip] = 1
    /\ \A ip \in DOMAIN writes : writes[ip] = 1
    /\ DOMAIN writes = DOMAIN devices
    /\ DOMAIN writes \subseteq DOMAIN handed

\* C13: by the time done is signalled every IP of the enumerated host list has
\* exactly one terminal outcome (Up or Down) in the device map, and during the
\* scan each IP is handed to exactly one worker and written exactly once.
C13_OneOutcomePerIP ==
    /\ HandedAndWrittenOnce
    /\ doneSignalled =>
          /\ DOMAIN devices = Range(ips)
          /\ \A ip \in DOMAIN devices : devices[ip].Status \in {"Up", "Down"}

\* C16: scannedCount never decreases between the start of a scan and its done
\* signal: every step of a worker or of the completion goroutine leaves it
\* equal or larger.
C16_ScannedMonotone ==
    [][(scanState = "running" /\ scanState' = "running") => scannedCount' >= scannedCount]_vars

\* the completion goroutine credited IPs that no worker counted
C16_Witness == cpc \in {"send", "done"} /\ scannedCount > Len(counted) /\ Len(counted) > 0


\* the low three bytes of an address as a number, the address k places after
\* ip, and the order of addresses
Low24(ip) == (ip[2] * 256 + ip[3]) * 256 + ip[4]
AddIP(ip, k) ==
    LET low == Low24(ip) + k
    IN <<(ip[1] + (low \div 16777216)) % 256, (low \div 65536) % 256, (low \div 256) % 256, low % 256>>
LessIP(a, b) == a[1] < b[1] \/ (a[1] = b[1] /\ Low24(a) < Low24(b))

\* the addresses of a block: all of them for /32 and /31, otherwise all but
\* the first (network) and the last (broadcast), in ascending order
ExpectedIPs(cidr) ==
    LET base == Mask(cidr.IP, cidr.Bits)
        size == Pow2(32 - cidr.Bits)
    IN IF size <= 2 THEN [i \in 1..size |-> AddIP(base, i - 1)]
       ELSE [i \in 1..(size - 2) |-> AddIP(base, i)]

AscendingIPs(seq) == \A i \in 1..(Len(seq) - 1) : LessIP(seq[i], seq[i + 1])

\* C17: GetAllIPs returns the block's addresses in ascending order without
\* duplicates: the one address of a /32, both addresses of a /31, and for
\* every prefix length <= 30 all addresses but the first and the last, e.g.
\* [192.168.1.1, 192.168.1.2] for 192.168.1.0/30.
C17_GetAllIPsBlock ==
    (task = "enum" /\ fpc = "done") =>
        /\ enumOut.returned
        /\ enumOut.ips = ExpectedIPs(enumCidr)
        /\ AscendingIPs(enumOut.ips)
        /\ (enumCidr = [IP |-> BaseIP, Bits |-> 30]) =>
              enumOut.ips = <<(<<192, 168, 1, 1>>), (<<192, 168, 1, 2>>)>>

\* what holds of the code: the same for every prefix length but 0
GetAllIPsBlockFromOne ==
    (task = "enum" /\ fpc = "done" /\ enumCidr.Bits >= 1) =>
        /\ enumOut.returned
        /\ enumOut.ips = ExpectedIPs(enumCidr)
        /\ AscendingIPs(enumOut.ips)
        /\ (enumCidr = [IP |-> BaseIP, Bits |-> 30]) =>
              enumOut.ips = <<(<<192, 168, 1, 1>>), (<<192, 168, 1, 2>>)>>

\* C18: IsReachable returns reachable = true exactly when the ARP side-channel
\* gave a non-empty MAC or a probe succeeded, and the returned port list is
\* exactly the set of ports whose probe succeeded; so a Down device has an
\* empty open_ports list.
C18_ReachableIffAnswered ==
    (task = "probe" /\ fpc = "done") =>
        /\ prRet.reachable <=> (prMac # <<>> \/ prSucc # {})
        /\ Range(prRet.openPorts) = prSucc
        /\ Len(prRet.openPorts) = Cardinality(prSucc)
        /\ prRet.device.Status = (IF prRet.reachable THEN "Up" ELSE "Down")
        /\ prRet.device.Status = "Down" =>
              (prRet.device.OpenPorts = <<>> /\ prRet.openPorts = <<>>)

\* a host without a MAC was found reachable through two ports
C18_Witness ==
    /\ task = "probe" /\ fpc = "done"
    /\ prMac = <<>> /\ Cardinality(prSucc) = 2 /\ prRet.reachable

StrictlyAscending(seq) == \A i \in 1..(Len(seq) - 1) : seq[i] < seq[i + 1]

\* C19: open_ports is strictly ascending for every device, whatever order the
\* probe goroutines report in.
C19_PortsStrictlyAscending ==
    (task = "probe" /\ fpc = "done") =>
        /\ StrictlyAscending(prRet.openPorts)
        /\ StrictlyAscending(prRet.device.OpenPorts)
        /\ prRet.reachable => prRet.device.OpenPorts = prRet.openPorts

\* the ports were reported in descending order and the device holds them all
C19_Witness ==
    /\ task = "probe" /\ fpc = "done"
    /\ Len(prArrived) >= 2 /\ prArrived[1] > prArrived[2]
    /\ Len(prRet.device.OpenPorts) = Len(prArrived)

\* ^[0-9A-F]{2}(:[0-9A-F]{2}){5}$
Canonical(str) ==
    /\ Len(str) = 17
    /\ \A i \in 1..17 :
          IF i % 3 = 0 THEN str[i] = ":"
          ELSE str[i] \in HexDigits \cup Range(UpperHex)

\* C20: every non-empty MAC string GetMACFromIP returns matches
\* ^[0-9A-F]{2}(:[0-9A-F]{2}){5}$, for every token the ARP-output regex can
\* extract, tokens with one-digit groups included.
C20_MacCanonical ==
    (task = "mac" /\ fpc = "done") => (macOut = <<>> \/ Canonical(macOut))

\* what holds of the code: the same for tokens of twelve hex digits
MacCanonicalTwoDigit ==
    (task = "mac" /\ fpc = "done" /\ Len(macToken) = 17) => Canonical(macOut)


\* C14: when the CIDR string does not parse, ScanNetwork returns an error,
\* spawns no worker and no producer, never sends a done signal, and leaves
\* totalIPs, sentCount, scannedCount, the device map and the worker-stats map
\* unchanged.
C14_InvalidCidrTouchesNothing ==
    /\ [][\A c \in CallIds :
            (rcpc[c] = "none" /\ rcpc'[c] = "failed") =>
                UNCHANGED <<rTotalIPs, rSentCount, rScannedCount, rDevices, rWorkerStats,
                            rwpc, rppc, rccpc, rwg>>]_vars
    /\ [](\A c \in CallIds :
            rcpc[c] = "failed" =>
                /\ \A w \in WorkerIds : rwpc[c][w] = "none"
                /\ rppc[c] = "none" /\ rccpc[c] = "none" /\ rwg[c] = 0)

\* a call failed on its CIDR while the scan of the call before it was running
C14_Witness ==
    /\ rcpc[2] = "failed"
    /\ rTotalIPs = 2 /\ rSentCount > 0 /\ rScannedCount > 0
    /\ DOMAIN rDevices # {} /\ DOMAIN rWorkerStats # {}

\* ScanNetwork call c has passed its spawn loop and none of its workers has received an IP
BeforeWorkersRun(c) ==
    /\ rcpc[c] = "returned" \/ (rcpc[c] = "spawn" /\ ri[c] = rn[c])
    /\ \A w \in WorkerIds : rwpc[c][w] \in {"none", "range"}
    /\ Len(rWorkChan[c]) = rpidx[c] - 1

\* neither map holds an entry written for a call before c
NoLeftOver(c) ==
    /\ \A ip \in DOMAIN rDevices : rDevices[ip] >= c
    /\ \A id \in DOMAIN rWorkerStats : rWorkerStats[id] >= c

\* C15: at the start of each new scan both the device map and the
\* worker-stats map are cleared: before any worker of the new scan runs,
\* neither map holds an entry left over from a previous scan, worker entries
\* with ids >= the new worker count included.
C15_MapsClearedAtStart == \A c \in CallIds : BeforeWorkersRun(c) => NoLeftOver(c)

\* what holds of the code: the same when no earlier scan was running as the call began
MapsClearWhenSequential ==
    \A c \in CallIds : (BeforeWorkersRun(c) /\ ~rOverlap[c]) => NoLeftOver(c)

\* C30: NormalizeMACAddress is idempotent: for every input string x over hex
\* digits and the separators ':', '-', '.',
\* NormalizeMACAddress(NormalizeMACAddress(x)) == NormalizeMACAddress(x).
C30_NormalizeIdempotent ==
    (parseTask = "norm" /\ parsePc = "done") => normAgain = normOut

\* the input had separators at odd places and a lower-case digit, and the result
\* has a colon of its own
C30_Witness ==
    /\ parseTask = "norm" /\ parsePc = "done"
    /\ normIn = <<"a", ":", "0", "F">>
    /\ normOut = <<"A", "0", ":", "F">>

\* record i of the table of a response that holds it whole, read off the bytes
RecordName(resp, i) == TrimRight(SubSeq(resp, 58 + (18 * i), 72 + (18 * i)), {32, 0})
RecordType(resp, i) == resp[73 + (18 * i)]
RecordFlags(resp, i) == <<resp[74 + (18 * i)], resp[75 + (18 * i)]>>
\* type 0x00 or 0x20 and a name that is not empty once cleaned
Nameable(resp, i) == RecordType(resp, i) \in {0, 32} /\ cleanHostname(RecordName(resp, i)) # <<>>
Least(S) == CHOOSE i \in S : \A j \in S : i <= j

\* what the two passes are to return for a response that holds its whole table
NbExpected(resp) ==
    LET table == 0..(resp[57] - 1)
        unique == {i \in table : Nameable(resp, i) /\ RecordFlags(resp, i) = <<4, 0>>}
        single == {i \in table : Nameable(resp, i) /\ RecordFlags(resp, i)[1] < 128}
    IN  IF unique # {} THEN cleanHostname(RecordName(resp, Least(unique)))
        ELSE IF single # {} THEN cleanHostname(RecordName(resp, Least(single)))
        ELSE <<>>

C29_RdpParser ==
    (parseTask = "rdp" /\ parsePc = "done") =>
        LET accepted == /\ Len(rdpResp) >= 19
                        /\ rdpResp[1] = 3 /\ rdpResp[2] = 0
                        /\ rdpResp[6] = 208
        IN  /\ ~accepted => (rdpRet \notin {"tls", "secure protocols not supported"}
                             /\ rdpDials = 1)
            /\ accepted =>
                  /\ (rdpRet = "tls") = ((rdpResp[16] \div 2) % 4 # 0)
                  /\ rdpRet # "tls" => (rdpRet = "secure protocols not supported" /\ rdpDials = 1)
                  /\ SubSeq(rdpResp, 16, 19) = <<2, 0, 0, 0>> => rdpRet = "tls"
                  /\ SubSeq(rdpResp, 16, 19) = <<1, 0, 0, 0>> => rdpRet # "tls"

\* a 19-byte response with 02 00 00 00 went on to the second connection
C29_Witness ==
    /\ parseTask = "rdp" /\ parsePc = "done"
    /\ Len(rdpResp) = 19 /\ SubSeq(rdpResp, 16, 19) = <<2, 0, 0, 0>>
    /\ rdpRet = "tls" /\ rdpDials = 2

\* C22: when GetWorkerStats is called while the worker-stats map is empty and
\* the device map is non-empty, it returns exactly one entry, with state
\* "completed" and with IPsScanned, TotalIPs and SentCount all equal to the
\* scan's actual totals (scannedCount, totalIPs, sentCount); when both maps are
\* empty it returns an empty snapshot.
C22_CompletedEntryHasTotals ==
    DOMAIN workerStats = {} =>
        IF DOMAIN devices # {}
        THEN /\ Cardinality(DOMAIN GetWorkerStats) = 1
             /\ \A id \in DOMAIN GetWorkerStats :
                   /\ GetWorkerStats[id].State = "completed"
                   /\ GetWorkerStats[id].IPsScanned = scannedCount
                   /\ GetWorkerStats[id].TotalIPs = totalIPs
                   /\ GetWorkerStats[id].SentCount = sentCount
        ELSE DOMAIN GetWorkerStats = {}

\* what holds of the code: the synthesised entry has the actual totals when Stop
\* was not called
CompletedEntryTotalsUnstopped ==
    (DOMAIN workerStats = {} /\ DOMAIN devices # {} /\ ~stopClosed) =>
        \A id \in DOMAIN GetWorkerStats :
            /\ GetWorkerStats[id].IPsScanned = scannedCount
            /\ GetWorkerStats[id].SentCount = sentCount

\* the validation rule: 2 to 63 characters, a letter first, a letter or digit
\* last, and only letters, digits and '-'
ValidHostname(name) ==
    /\ Len(name) >= 2 /\ Len(name) <= 63
    /\ name[1] \in AsciiLetters
    /\ name[Len(name)] \in AsciiLetters \cup AsciiDigits
    /\ \A i \in 1..Len(name) : name[i] \in AsciiLetters \cup AsciiDigits \cup {45}

\* C21: every hostname stored in a device by the worker's hostname resolution
\* (from reverse DNS, AFP, NetBIOS, SMB, RDP certificate or mDNS) satisfies the
\* validation rule: length 2-63, first character a letter, last character
\* alphanumeric, only characters from [A-Za-z0-9-].
C21_StoredHostnamesValid ==
    \A ip \in DOMAIN hDevices :
        \A i \in 1..Len(hDevices[ip].Hostname) : ValidHostname(hDevices[ip].Hostname[i])

\* what holds of the code: a hostname taken from an RDP certificate is valid
CertHostnamesValid ==
    \A w \in WorkerIds :
        hBy[w] = "rdp" => \A i \in 1..Len(hDev[w].Hostname) : ValidHostname(hDev[w].Hostname[i])

\* C23: a device record is never changed after it is inserted into the device
\* map: the mDNS goroutine a worker spawns for an IP has finished all its writes
\* to the device (hostname, device type) before the worker stores the device,
\* and no later step of the scan writes that map key again.
C23_RecordFrozenOnceStored ==
    /\ [](\A w \in WorkerIds : hpc[w] = "writing" => hgpc[w] \in {"none", "done"})
    /\ [][\A ip \in DOMAIN hDevices :
            ip \in DOMAIN hDevices' /\ hDevices'[ip] = hDevices[ip]]_vars
    /\ [](\A ip \in DOMAIN hWrites : hWrites[ip] <= 1)

\* both IPs are stored, one of them with the hostname and the type its mDNS
\* goroutine wrote
C23_Witness ==
    /\ Cardinality(DOMAIN hDevices) = 2
    /\ \E w \in WorkerIds :
          /\ hpc[w] = "count" /\ hBy[w] = "mdns" /\ hgpc[w] = "done"
          /\ hDevices[hip[w]] = hDev[w]
          /\ hDev[w].Hostname # <<>> /\ hDev[w].DeviceType = "Possible Apple"

\* C24: for each IP a worker probes, scannedCount is incremented exactly once,
\* and only after the device record has been written to the device map and
\* every operation for that IP (including the worker's spawned mDNS goroutine,
\* and the query goroutines that goroutine's getBonjourHostname started) has
\* finished. The clause on the completion goroutine's drain credit is stated
\* for the scan engine as CreditCountsUncounted.
C24_CountedAfterAllWork ==
    /\ [][\A w \in WorkerIds :
            (hpc[w] = "count" /\ hpc'[w] = "stats") =>
                /\ hip[w] \in DOMAIN hDevices
                /\ hgpc[w] \in {"none", "done"}
                /\ hip[w] \notin hQuery]_vars
    /\ [](\A ip \in DOMAIN hCounted : hCounted[ip] <= 1)

\* what holds of the code: the worker counts an IP once, after its record is
\* written and after the goroutine it spawned has returned
CountedAfterStoreAndWait ==
    /\ \A w \in WorkerIds :
          hpc[w] = "count" => (hip[w] \in DOMAIN hDevices /\ hgpc[w] \in {"none", "done"})
    /\ \A ip \in DOMAIN hCounted : hCounted[ip] <= 1

\* what holds of the code: the drain credit adds no more than the number of IPs
\* that were sent on workChan and that no worker counted
CreditCountsUncounted ==
    scannedCount - Len(counted)
        <= Cardinality((Range(workChan) \cup DOMAIN handed) \ Range(counted))

\* C25: every read and write of the scanner's device map (worker inserts, the
\* reset in ScanNetwork, and the length reads in GetWorkerStats) is performed
\* while holding deviceMutex, so no read of the map can run concurrently with a
\* worker's write.
C25_DeviceMapUnderMutex ==
    /\ [][hDevices' # hDevices => hMutex = "worker"]_vars
    /\ [][(hrpc = "devices" /\ hrpc' = "idle") => hMutex = "reader"]_vars

\* what holds of the code: the workers write the map with deviceMutex held
WritesUnderMutex ==
    /\ [][hDevices' # hDevices => hMutex = "worker"]_vars
    /\ [](hMutex = "worker" <=> \E w \in WorkerIds : hpc[w] = "writing")

MethodOrder == <<"dns", "afp", "netbios", "smb", "rdp", "mdns">>
MethodRank(m) == CHOOSE i \in 1..6 : MethodOrder[i] = m
\* the port that lets a method be tried
TriggerHolds(m, dev) ==
    CASE m = "dns" -> TRUE
      [] m = "afp" -> 548 \in dev.OpenPorts
      [] m \in {"netbios", "smb"} -> 445 \in dev.OpenPorts
      [] m = "rdp" -> 3389 \in dev.OpenPorts
      [] m = "mdns" -> dev.OpenPorts \cap {5353, 5000, 7000} # {} \/ dev.DeviceType = "Apple"

C31_CleanIdempotent ==
    (parseTask = "clean") =>
        /\ parsePc \in {"once", "done"} =>
               /\ \A i \in 1..Len(clOut) : clOut[i] \in AsciiLetters \cup AsciiDigits \cup {45}
               /\ clIn = MyHostExample => clOut = <<77, 121, 72, 111, 115, 116>>
        /\ parsePc = "done" => clAgain = clOut

\* both calls have returned on a name that the first call changed and left non-empty
C31_Witness ==
    /\ parseTask = "clean" /\ parsePc = "done"
    /\ clOut # clIn /\ clOut # <<>>
    /\ \E i \in 1..Len(clIn) : clIn[i] = 58
    /\ \E i \in 1..Len(clIn) : clIn[i] = 233

\* weak fairness for every step of the server's goroutines, of a handler that has
\* begun, and of the engine's runs; no fairness for the requests themselves
FairWebSpec ==
    /\ WebSpec
    /\ WF_vars(StartScanCreate)
    /\ WF_vars(DumpClear \/ DumpReset)
    /\ \A i \in ScanIds :
           /\ WF_vars(GoScanNetwork(i) \/ GoGetResults(i) \/ GoRecvDevice(i) \/ GoRecvDone(i)
                      \/ GoProgressJoined(i) \/ GoFinal(i) \/ GoDeferred(i))
           /\ WF_vars(TickRecvDone(i) \/ TickInactive(i))
           /\ WF_vars(EngineComplete(i))

\* C32: after the engine sends its single done signal for a scan that was not
\* stopped, the StartScan goroutines all terminate: the result loop eventually
\* broadcasts scan_complete and sets scanActive to false, under every
\* interleaving of the progress goroutine and the result loop, which both receive
\* from the same done channel, without a StopScan or DumpScan call.
C32_DoneCompletesScan ==
    \A i \in ScanIds :
        (gpc[i] = "loop" /\ engDone[gsc[i]] > 0 /\ ~engStop[gsc[i]])
            ~> (gpc[i] \in {"deferred", "exited"} /\ tpc[i] = "closed")

\* what holds of the code: the result loop passes <-progressDone only once the
\* progress goroutine has returned, and the scan_complete step clears scanActive
ResultLoopJoinsProgress ==
    /\ [](\A i \in ScanIds : gpc[i] = "final" => tpc[i] = "closed")
    /\ [][\A i \in ScanIds : (gpc[i] = "final" /\ gpc'[i] = "deferred") => ~scanActive']_vars

\* the StartScan goroutine of scan i has not finished
GoroutineLive(i) == gpc[i] \in {"start", "getResults", "loop", "waitProgress", "final"}

\* scan i is running: its goroutine is live, or workers run on the Scanner it reads
ScanRunning(i) == GoroutineLive(i) \/ (gsc[i] # 0 /\ engRuns[gsc[i]] > 0)

\* C33: after any sequence of StartScan, StopScan and DumpScan calls at most one
\* scan is running: StartScan never succeeds while the workers or the
\* result-processing goroutine of an earlier scan are still running, and an
\* earlier scan's goroutine finishing never clears scanActive for a later scan
\* that is still running.
C33_AtMostOneScan ==
    /\ [](Cardinality({i \in ScanIds : ScanRunning(i)}) <= 1)
    /\ [][(startPc = "idle" /\ startPc' = "create") =>
              /\ \A i \in ScanIds : ~ScanRunning(i)
              /\ \A j \in ScanIds : engRuns[j] = 0]_vars
    /\ [][\A i \in ScanIds :
              (gpc[i] # gpc'[i] /\ scanActive /\ ~scanActive') =>
                  ~\E k \in ScanIds : k > i /\ ScanRunning(k)]_vars

\* what holds of the code: StartScan succeeds only with scanActive false, and
\* between its check and the creation of the goroutine no other call succeeds
StartOnlyWhenInactive ==
    /\ [][(startPc = "idle" /\ startPc' = "create") => (~scanActive /\ scanActive')]_vars
    /\ [](startPc = "create" => created < MaxScans)

\* C34: when a consumer (the TUI's readScanResultCmd, the web server's result
\* loop) handles the done signal it has already received every device the workers
\* placed on the results stream: no device that was enqueued is left unread in the
\* results channel when the consumer stops reading.
C34_NothingUnreadAtDone == doneSignalled => resultsChan = <<>>

\* what holds of the code: no device is sent once done has been received
NoSendAfterDone == [][doneSignalled => streamed' = streamed]_vars

\* the producer's safety: a step that ends the goroutine closes the open work
\* channel, nothing is sent on the closed channel, and a send is never blocked
ProducerSafe ==
    /\ [][(ppc = "select" /\ ppc' = "done") => (~workClosed /\ workClosed')]_vars
    /\ [][workClosed => (workClosed' /\ Len(workChan') <= Len(workChan))]_vars
    /\ [](ppc = "done" => workClosed)
    /\ []((ppc = "select" /\ pidx <= Len(ips)) => (Len(workChan) < Len(ips) /\ ~workClosed))

\* C35: the producer goroutine always terminates having closed the work channel
\* exactly once (on the normal and on the cancelled path), never sends on the
\* channel after closing it, and never blocks on an enqueue, the channel's
\* capacity being the number of enumerated hosts.
C35_ProducerClosesOnce ==
    /\ ProducerSafe
    /\ (scanState = "running") ~> (ppc = "done" /\ workClosed)

\* what holds of the code: the producer ends with the channel closed unless the
\* process panics first
ProducerClosesUnlessPanicked ==
    /\ ProducerSafe
    /\ (scanState = "running") ~> ((ppc = "done" /\ workClosed) \/ panicked)

\* C36: IsReachable always returns: although its results channel has capacity
\* 10 while up to 15 probe goroutines may each send one port, no probe goroutine
\* blocks forever and the collector loop ends after the last probe has finished,
\* even when all 15 probes succeed.
C36_IsReachableReturns ==
    /\ (irPc = "range") ~> (irPc = "returned" /\ irDialOk = 0 /\ irDialFail = 0)
    /\ [](irPc = "returned" => (irResults = 0 /\ irOpenPorts + irDialFail <= ProbeCount))

\* the call returned all 15 ports after a probe goroutine had found results full
C36_Witness ==
    irPc = "returned" /\ irOpenPorts = ProbeCount /\ ProbeCount > ProbeChanCap /\ irWasFull

\* what holds of the code: on a Scanner that receives one ScanNetwork call both
\* counters stay between 0 and totalIPs, after the drain credit and after Stop too
CountersBoundedOneCall ==
    /\ 0 <= scannedCount /\ scannedCount <= totalIPs
    /\ 0 <= sentCount /\ sentCount <= totalIPs

\* C37: in every reachable state of a scan, including after the drain credit and
\* after Stop, 0 <= scannedCount <= totalIPs and 0 <= sentCount <= totalIPs.
C37_CountersBounded ==
    /\ CountersBoundedOneCall
    /\ 0 <= rScannedCount /\ rScannedCount <= rTotalIPs
    /\ 0 <= rSentCount /\ rSentCount <= rTotalIPs

\* C38: GetAllIPs terminates for every valid IPv4 CIDR, including the blocks
\* whose last address is 255.255.255.255 (where the byte-wise increment wraps to
\* 0.0.0.0) and the prefix /0.
C38_GetAllIPsTerminates == (task = "enum" /\ fpc = "done") => enumOut.returned

\* what holds of the code: the call returns for every prefix length but 0, and
\* for a block that ends at 255.255.255.255 the loop ends when inc wraps
ReturnsOnWrap ==
    (task = "enum" /\ fpc = "done" /\ enumCidr.Bits >= 1) =>
        /\ enumOut.returned
        /\ (enumCidr.IP = <<255, 255, 255, 255>> /\ enumCidr.Bits <= 30) =>
               enumOut.ips[Len(enumOut.ips)] = <<255, 255, 255, 254>>
        /\ (enumCidr.IP = <<255, 255, 255, 255>> /\ enumCidr.Bits >= 31) =>
               enumOut.ips[Len(enumOut.ips)] = <<255, 255, 255, 255>>

\* C39: the scanned count the TUI derives from a GetWorkerStats snapshot (the
\* sum of IPsScanned over all returned entries) equals the engine's scannedCount
\* at snapshot time and therefore never exceeds totalIPs, for any number of live
\* workers.
C39_TuiScannedIsEngineCount ==
    (scanState = "running") =>
        /\ TotalScanned(GetWorkerStats) = scannedCount
        /\ TotalScanned(GetWorkerStats) <= totalIPs

\* what holds of the code: with workers registered every entry of the snapshot
\* carries the engine's scannedCount, so the TUI's sum is that count times the
\* number of entries
SumIsCountTimesEntries ==
    (scanState = "running" /\ DOMAIN workerStats # {}) =>
        /\ \A id \in DOMAIN GetWorkerStats : GetWorkerStats[id].IPsScanned = scannedCount
        /\ TotalScanned(GetWorkerStats) = Cardinality(DOMAIN workerStats) * scannedCount

====
